---- MODULE Spec2Model ----
(***************************************************************************)
(* Session and key-store management of the encrypted two-party chat:       *)
(* identity bundles, the five key stores, establishSession,                *)
(* encryptMessage / decryptMessage, the durable session file and the       *)
(* lifecycle driven by App (app.tsx) and ChatView (chat-view.tsx).         *)
(*                                                                         *)
(* The protocol engine (@signalapp/libsignal-client) is outside the        *)
(* repository.  It is modelled at the interface the repository calls:      *)
(* key material is a name for the call that generated it, a session state  *)
(* carries the tuple of key names its root secret was derived from, and a  *)
(* ciphertext authenticates under a session state exactly when the two     *)
(* tuples agree.  Chain keys are abstracted to per-state counters.         *)
(***************************************************************************)
EXTENDS Integers, Sequences, FiniteSets, TLC

\* ------------------------------------------------------------------ bounds
MaxStarts == 2      \* process starts in one behaviour
MaxSubmits == 2     \* accepted submits in one behaviour
MaxResets == 1      \* confirmed Ctrl+R resets in one behaviour
MaxApiOps == 3      \* encrypt calls per party in the library-level harness
MaxLen == 2         \* characters in the input text
MaxUnrendered == 2  \* key events handled between two renders

\* ------------------------------------------------------- program constants
NumPreKeys == 10    \* one-time pre-keys per identity bundle
DeviceId == 1       \* the single device index of every address
SignedPreKeyId == 1
KyberPreKeyId == 1
MaxRegistrationId == 16380

Parties == {"user", "assistant"}
Models == {"m1", "m2"}
Texts == {"a", "b"}
\* Math.random() sampled at its extremes, in thousandths: 0.000 and 0.999
RandomSamples == {0, 999}
\* the two draws of one session creation by the application
SamplePairs == {<<0, 999>>}
\* what streamChat can answer
Replies == {"r"}

Peer(p) == IF p = "user" THEN "assistant" ELSE "user"

None == [none |-> TRUE]

\* ------------------------------------------------------------- conversions
\* Buffer.from(bytes).toString('base64') and Buffer.from(text, 'base64')
ToBase64(bytes) == [b64 |-> bytes]
FromBase64(text) == text.b64

\* a numeric Map key written as a JSON object key, and Number(key)
KeyString(n) == [str |-> n]
Number(k) == k.str

\* `${name.name()}::${name.deviceId()}`
ProtocolAddress(name, device) == [name |-> name, device |-> device]
idx(address) == <<address.name, "::", address.device>>

EmptyMap == [k \in {} |-> None]

MapSet(m, k, v) == [x \in DOMAIN m \cup {k} |-> IF x = k THEN v ELSE m[x]]

MapDelete(m, k) == [x \in DOMAIN m \ {k} |-> m[x]]

\* --------------------------------------------------------- key generation
\* PrivateKey.generate() / KEMKeyPair.generate(): every call yields a key
\* pair unlike any other; the pair is named by the call that produced it
\* (session creation number, owner, purpose, ordinal).
GenerateKey(sid, owner, kind, n) ==
    [sid |-> sid, owner |-> owner, kind |-> kind, n |-> n]

Public(keyPair) == [pub |-> keyPair]
Private(keyPair) == [priv |-> keyPair]

\* identityKeyPair.sign(publicKey.serialize())
Sign(identityPrivateKey, publicKey) ==
    [signer |-> identityPrivateKey.priv, over |-> publicKey.pub]

\* variant of generateRegistrationId: the + 1 is missing
generateRegistrationId_fromZero(r) == (r * MaxRegistrationId) \div 1000

\* Math.floor(Math.random() * 16380) + 1, r the random number in thousandths
generateRegistrationId(r) == ((r * MaxRegistrationId) \div 1000) + 1

\* createIdentityBundle(): sid names this call's session creation, r is the
\* random draw of the registration id, now is Date.now()
createIdentityBundle(sid, owner, r, now) ==
    LET identityKeyPair == GenerateKey(sid, owner, "identity", 0)
        signedPreKey == GenerateKey(sid, owner, "signed", 0)
        kyberKeyPair == GenerateKey(sid, owner, "kyber", 0)
    IN [ registrationId |-> generateRegistrationId(r),
         identityKeyPair |-> [ privateKey |-> Private(identityKeyPair),
                               publicKey |-> Public(identityKeyPair) ],
         signedPreKey |-> [ id |-> SignedPreKeyId,
                            timestamp |-> now,
                            publicKey |-> Public(signedPreKey),
                            privateKey |-> Private(signedPreKey),
                            signature |-> Sign(Private(identityKeyPair),
                                               Public(signedPreKey)) ],
         preKeys |-> [ i \in 1..NumPreKeys |->
                         [ id |-> i,
                           publicKey |-> Public(GenerateKey(sid, owner, "onetime", i)),
                           privateKey |-> Private(GenerateKey(sid, owner, "onetime", i)) ] ],
         kyberPreKey |-> [ id |-> KyberPreKeyId,
                           timestamp |-> now,
                           publicKey |-> Public(kyberKeyPair),
                           secretKey |-> Private(kyberKeyPair),
                           signature |-> Sign(Private(identityKeyPair),
                                              Public(kyberKeyPair)) ] ]

\* --------------------------------------------------------------- the stores
\* new InMemorySessionStore(), new InMemoryIdentityKeyStore(key, regId),
\* new InMemoryPreKeyStore(), new InMemorySignedPreKeyStore(),
\* new InMemoryKyberPreKeyStore()
NewStores(identityKey, registrationId) ==
    [ session |-> EmptyMap,
      identity |-> [ identityKey |-> identityKey,
                     localRegistrationId |-> registrationId,
                     idKeys |-> EmptyMap ],
      preKey |-> EmptyMap,
      signedPreKey |-> EmptyMap,
      kyberPreKey |-> EmptyMap ]

\* variant of PopulateKyberKeyPair: the record gets the KEM pair of the
\* bundle, so that handshake messages of the history decrypt
PopulateKyberKeyPair_fromBundle(bundle) ==
    [ publicKey |-> bundle.kyberPreKey.publicKey,
      secretKey |-> bundle.kyberPreKey.secretKey ]

\* the KEM pair that populateStores puts into the Kyber record:
\* const kyberKeyPair = KEMKeyPair.generate()
PopulateKyberKeyPair(bundle) ==
    LET k == GenerateKey(bundle.kyberPreKey.publicKey.pub.sid,
                         bundle.kyberPreKey.publicKey.pub.owner, "kyberStore", 0)
    IN [ publicKey |-> Public(k), secretKey |-> Private(k) ]

\* populateStores(bundle, stores): savePreKey for every one-time pre-key,
\* saveSignedPreKey, saveKyberPreKey
populateStores(bundle, stores) ==
    [ stores EXCEPT
        !.preKey = [ i \in DOMAIN stores.preKey
                          \cup {bundle.preKeys[j].id : j \in DOMAIN bundle.preKeys} |->
                       IF \E j \in DOMAIN bundle.preKeys : bundle.preKeys[j].id = i
                       THEN LET pk == CHOOSE j \in DOMAIN bundle.preKeys :
                                          bundle.preKeys[j].id = i
                            IN [ id |-> i,
                                 publicKey |-> bundle.preKeys[pk].publicKey,
                                 privateKey |-> bundle.preKeys[pk].privateKey ]
                       ELSE stores.preKey[i] ],
        !.signedPreKey = MapSet(stores.signedPreKey, bundle.signedPreKey.id,
                                [ id |-> bundle.signedPreKey.id,
                                  timestamp |-> bundle.signedPreKey.timestamp,
                                  publicKey |-> bundle.signedPreKey.publicKey,
                                  privateKey |-> bundle.signedPreKey.privateKey,
                                  signature |-> bundle.signedPreKey.signature ]),
        !.kyberPreKey = MapSet(stores.kyberPreKey, bundle.kyberPreKey.id,
                               [ id |-> bundle.kyberPreKey.id,
                                 timestamp |-> bundle.kyberPreKey.timestamp,
                                 keyPair |-> PopulateKyberKeyPair(bundle),
                                 signature |-> bundle.kyberPreKey.signature ]) ]

\* ------------------------------------------------ the protocol engine

\* the root secret of a session, named by the key pairs that enter the
\* key agreement (three or four DH results and the KEM shared secret)
RootSecret(aliceIdentity, aliceBase, bobIdentity, bobSigned, bobOneTime, kem) ==
    [ aliceIdentity |-> aliceIdentity, aliceBase |-> aliceBase,
      bobIdentity |-> bobIdentity, bobSigned |-> bobSigned,
      bobOneTime |-> bobOneTime, kem |-> kem ]

\* KEM: encapsulation to a public key, and decapsulation with a secret key.
\* Decapsulating with another pair's secret key does not fail: it yields
\* an unrelated secret (implicit rejection).
Encapsulate(kyberPublic) == [to |-> kyberPublic.pub]
Decapsulate(kyberSecretKey, ct) ==
    IF kyberSecretKey.priv = ct.to THEN ct.to
    ELSE [rejectedBy |-> kyberSecretKey.priv, ct |-> ct.to]

VerifySignature(identityPublicKey, publicKey, signature) ==
    signature = [signer |-> identityPublicKey.pub, over |-> publicKey.pub]

NewSessionRecord == [cur |-> None, prev |-> <<>>]

\* SessionRecord.promote_state: the current state is archived
PromoteState(record, state) ==
    [ cur |-> state,
      prev |-> IF record.cur = None THEN record.prev
               ELSE <<record.cur>> \o record.prev ]

\* PreKeyBundle.new(...) as called by establishSession
PreKeyBundle(identity) ==
    [ registrationId |-> identity.registrationId,
      deviceId |-> DeviceId,
      preKeyId |-> identity.preKeys[1].id,
      preKeyPublic |-> identity.preKeys[1].publicKey,
      signedPreKeyId |-> identity.signedPreKey.id,
      signedPreKeyPublic |-> identity.signedPreKey.publicKey,
      signedPreKeySignature |-> identity.signedPreKey.signature,
      identityKey |-> identity.identityKeyPair.publicKey,
      kyberPreKeyId |-> identity.kyberPreKey.id,
      kyberPreKeyPublic |-> identity.kyberPreKey.publicKey,
      kyberPreKeySignature |-> identity.kyberPreKey.signature ]

\* InMemoryIdentityKeyStore.saveIdentity: the stored key after the call
saveIdentity(identityStore, address, key) ==
    [ identityStore EXCEPT !.idKeys = MapSet(@, idx(address), key) ]

\* the IdentityChange it reports
saveIdentityResult(identityStore, address, key) ==
    LET hasCurrent == idx(address) \in DOMAIN identityStore.idKeys
        changed == IF hasCurrent
                   THEN identityStore.idKeys[idx(address)] # key
                   ELSE TRUE
    IN IF changed THEN "ReplacedExisting" ELSE "NewOrUnchanged"

isTrustedIdentity(identityStore, address, key) == TRUE

\* InMemorySessionStore.getSession / saveSession
getSession(sessionStore, address) ==
    IF idx(address) \in DOMAIN sessionStore
    THEN sessionStore[idx(address)] ELSE None

saveSession(sessionStore, address, record) ==
    MapSet(sessionStore, idx(address), record)

\* processPreKeyBundle(bundle, address, sessionStore, identityStore)
processPreKeyBundle(bundle, address, stores) ==
    LET own == stores.identity.identityKey.priv
        base == GenerateKey(own.sid, own.owner, "base", 0)
        valid == /\ VerifySignature(bundle.identityKey, bundle.signedPreKeyPublic,
                                    bundle.signedPreKeySignature)
                 /\ VerifySignature(bundle.identityKey, bundle.kyberPreKeyPublic,
                                    bundle.kyberPreKeySignature)
                 /\ isTrustedIdentity(stores.identity, address, bundle.identityKey)
        kemCt == Encapsulate(bundle.kyberPreKeyPublic)
        state == [ role |-> "alice",
                   base |-> base,
                   secret |-> RootSecret(own, base, bundle.identityKey.pub,
                                         bundle.signedPreKeyPublic.pub,
                                         bundle.preKeyPublic.pub,
                                         bundle.kyberPreKeyPublic.pub),
                   remoteIdentity |-> bundle.identityKey,
                   pending |-> [ preKeyId |-> bundle.preKeyId,
                                 signedPreKeyId |-> bundle.signedPreKeyId,
                                 kyberPreKeyId |-> bundle.kyberPreKeyId,
                                 kyberCiphertext |-> kemCt ],
                   send |-> 0, recv |-> 0, skipped |-> {} ]
        old == getSession(stores.session, address)
        record == PromoteState(IF old = None THEN NewSessionRecord ELSE old, state)
    IN IF ~valid THEN [ok |-> FALSE, stores |-> stores]
       ELSE [ ok |-> TRUE,
              stores |-> [ stores EXCEPT
                  !.session = saveSession(@, address, record),
                  !.identity = saveIdentity(@, address, bundle.identityKey) ] ]

\* variant of establishSession: each party processes the bundle of the
\* other under its own address
establishSession_ownAddress(userIdentity, assistantIdentity, userStores, assistantStores) ==
    LET userAddress == ProtocolAddress("user", DeviceId)
        assistantAddress == ProtocolAddress("assistant", DeviceId)
        u == processPreKeyBundle(PreKeyBundle(assistantIdentity), userAddress,
                                 userStores)
        a == processPreKeyBundle(PreKeyBundle(userIdentity), assistantAddress,
                                 assistantStores)
    IN [ ok |-> u.ok /\ a.ok,
         userStores |-> u.stores,
         assistantStores |-> IF u.ok THEN a.stores ELSE assistantStores ]

\* establishSession(userIdentity, assistantIdentity, userStores, assistantStores)
establishSession(userIdentity, assistantIdentity, userStores, assistantStores) ==
    LET userAddress == ProtocolAddress("user", DeviceId)
        assistantAddress == ProtocolAddress("assistant", DeviceId)
        u == processPreKeyBundle(PreKeyBundle(assistantIdentity), assistantAddress,
                                 userStores)
        a == processPreKeyBundle(PreKeyBundle(userIdentity), userAddress,
                                 assistantStores)
    IN [ ok |-> u.ok /\ a.ok,
         userStores |-> u.stores,
         assistantStores |-> IF u.ok THEN a.stores ELSE assistantStores ]

\* what fails inside the engine or a store callback rejects the promise
Throws(stores) == [ok |-> FALSE, stores |-> stores]

\* signalEncrypt(message, address, sessionStore, identityStore)
signalEncrypt(text, address, stores) ==
    LET record == getSession(stores.session, address)
    IN IF record = None \/ record.cur = None THEN Throws(stores)
       ELSE
       LET st == record.cur
           inner == [ secret |-> st.secret, from |-> st.role,
                      counter |-> st.send, text |-> text ]
           msg == IF st.pending = None
                  THEN [ type |-> "Whisper", message |-> inner ]
                  ELSE [ type |-> "PreKey",
                         registrationId |-> stores.identity.localRegistrationId,
                         preKeyId |-> st.pending.preKeyId,
                         signedPreKeyId |-> st.pending.signedPreKeyId,
                         kyberPreKeyId |-> st.pending.kyberPreKeyId,
                         kyberCiphertext |-> st.pending.kyberCiphertext,
                         baseKey |-> Public(st.base),
                         identityKey |-> Public(stores.identity.identityKey.priv),
                         message |-> inner ]
           next == [ record EXCEPT !.cur.send = @ + 1 ]
       IN [ ok |-> TRUE,
            ciphertext |-> msg,
            stores |-> [ stores EXCEPT
                !.session = saveSession(@, address, next),
                !.identity = saveIdentity(@, address, st.remoteIdentity) ] ]

\* variant of encryptMessage: the sender also drops its own one-time
\* pre-key of the id the handshake message names
encryptMessage_consumesPreKey(plaintext, recipientName, stores) ==
    LET r == signalEncrypt(plaintext, ProtocolAddress(recipientName, DeviceId), stores)
    IN IF ~r.ok THEN r
       ELSE [ ok |-> TRUE,
              ciphertext |-> r.ciphertext,
              messageType |-> r.ciphertext.type,
              stores |-> [ r.stores EXCEPT
                  !.preKey = IF r.ciphertext.type = "PreKey"
                             THEN MapDelete(@, r.ciphertext.preKeyId)
                             ELSE @ ] ]

\* encryptMessage(plaintext, recipientName, stores)
encryptMessage(plaintext, recipientName, stores) ==
    LET r == signalEncrypt(plaintext, ProtocolAddress(recipientName, DeviceId), stores)
    IN IF ~r.ok THEN r
       ELSE [ ok |-> TRUE,
              ciphertext |-> r.ciphertext,
              messageType |-> r.ciphertext.type,
              stores |-> r.stores ]

\* whether a session state authenticates and accepts an inner message
Accepts(st, inner) ==
    /\ st.secret = inner.secret
    /\ st.role # inner.from
    /\ \/ inner.counter >= st.recv
       \/ inner.counter \in st.skipped

\* the state after it has decrypted the message: the receiving chain moves
\* past the counter (keys of a gap are kept), a pending pre-key is acknowledged
Received(st, inner) ==
    [ st EXCEPT
        !.pending = None,
        !.skipped = IF inner.counter >= st.recv
                    THEN @ \cup (st.recv .. inner.counter - 1)
                    ELSE @ \ {inner.counter},
        !.recv = IF inner.counter >= st.recv THEN inner.counter + 1 ELSE @ ]

RemoveAt(seq, i) == [ j \in 1..(Len(seq) - 1) |-> IF j < i THEN seq[j] ELSE seq[j + 1] ]

\* decrypt_message_with_record: the current state first, then the archived
\* states; an archived state that decrypts is promoted
DecryptWithRecord(record, inner) ==
    IF record.cur # None /\ Accepts(record.cur, inner)
    THEN [ ok |-> TRUE, record |-> [ record EXCEPT !.cur = Received(@, inner) ] ]
    ELSE IF \E i \in DOMAIN record.prev : Accepts(record.prev[i], inner)
    THEN LET i == CHOOSE k \in DOMAIN record.prev :
                     /\ Accepts(record.prev[k], inner)
                     /\ \A l \in DOMAIN record.prev :
                            Accepts(record.prev[l], inner) => k <= l
         IN [ ok |-> TRUE,
              record |-> PromoteState([ record EXCEPT !.prev = RemoveAt(@, i) ],
                                      Received(record.prev[i], inner)) ]
    ELSE [ ok |-> FALSE, record |-> record ]

\* InMemoryPreKeyStore.removePreKey
removePreKey(preKeyStore, id) == MapDelete(preKeyStore, id)

\* variant of markKyberPreKeyUsed: a used Kyber pre-key is deleted
markKyberPreKeyUsed_removes(kyberStore, id) == MapDelete(kyberStore, id)

\* InMemoryKyberPreKeyStore.markKyberPreKeyUsed: an empty body
markKyberPreKeyUsed(kyberStore, id) == kyberStore

\* the position of the state of a record whose base key is `base`, 0 for
\* the current state, 0 - 1 when there is none
MatchingSession(record, base) ==
    IF record.cur # None /\ record.cur.role = "bob" /\ record.cur.base = base THEN 0
    ELSE IF \E i \in DOMAIN record.prev :
                record.prev[i].role = "bob" /\ record.prev[i].base = base
    THEN CHOOSE i \in DOMAIN record.prev :
             /\ record.prev[i].role = "bob" /\ record.prev[i].base = base
             /\ \A l \in DOMAIN record.prev :
                    (record.prev[l].role = "bob" /\ record.prev[l].base = base) => i <= l
    ELSE 0 - 1

\* signalDecryptPreKey(message, address, sessionStore, identityStore,
\*                     preKeyStore, signedPreKeyStore, kyberPreKeyStore)
signalDecryptPreKey(msg, address, stores) ==
    LET old == getSession(stores.session, address)
        record == IF old = None THEN NewSessionRecord ELSE old
        at == MatchingSession(record, msg.baseKey.pub)
        \* getSignedPreKey, getKyberPreKey, getPreKey throw on an absent id
        haveKeys == /\ msg.signedPreKeyId \in DOMAIN stores.signedPreKey
                    /\ msg.kyberPreKeyId \in DOMAIN stores.kyberPreKey
                    /\ msg.preKeyId \in DOMAIN stores.preKey
    IN IF at = 0 - 1 /\ ~haveKeys THEN Throws(stores)
       ELSE
       LET own == stores.identity.identityKey.priv
           fresh == [ role |-> "bob",
                      base |-> msg.baseKey.pub,
                      secret |-> RootSecret(
                          msg.identityKey.pub, msg.baseKey.pub, own,
                          stores.signedPreKey[msg.signedPreKeyId].privateKey.priv,
                          stores.preKey[msg.preKeyId].privateKey.priv,
                          Decapsulate(
                              stores.kyberPreKey[msg.kyberPreKeyId].keyPair.secretKey,
                              msg.kyberCiphertext)),
                      remoteIdentity |-> msg.identityKey,
                      pending |-> None,
                      send |-> 0, recv |-> 0, skipped |-> {} ]
           ready == IF at = 0 THEN record
                    ELSE IF at > 0
                    THEN PromoteState([ record EXCEPT !.prev = RemoveAt(@, at) ],
                                      record.prev[at])
                    ELSE PromoteState(record, fresh)
           d == DecryptWithRecord(ready, msg.message)
       IN IF ~d.ok THEN Throws(stores)
          ELSE [ ok |-> TRUE,
                 plaintext |-> msg.message.text,
                 stores |-> [ stores EXCEPT
                     !.identity = saveIdentity(@, address, msg.identityKey),
                     !.kyberPreKey = IF at = 0 - 1
                                     THEN markKyberPreKeyUsed(@, msg.kyberPreKeyId)
                                     ELSE @,
                     !.preKey = IF at = 0 - 1 THEN removePreKey(@, msg.preKeyId)
                                ELSE @,
                     !.session = saveSession(@, address, d.record) ] ]

\* signalDecrypt(message, address, sessionStore, identityStore)
signalDecrypt(msg, address, stores) ==
    LET record == getSession(stores.session, address)
    IN IF record = None THEN Throws(stores)
       ELSE
       LET d == DecryptWithRecord(record, msg.message)
       IN IF ~d.ok THEN Throws(stores)
          ELSE [ ok |-> TRUE,
                 plaintext |-> msg.message.text,
                 stores |-> [ stores EXCEPT
                     !.identity = saveIdentity(@, address, d.record.cur.remoteIdentity),
                     !.session = saveSession(@, address, d.record) ] ]

\* variant of decryptMessage: the branch is chosen by the format of the
\* bytes, whatever the tag says
decryptMessage_byContent(ciphertext, messageType, senderName, stores) ==
    LET address == ProtocolAddress(senderName, DeviceId)
    IN IF ciphertext.type = "PreKey"
       THEN signalDecryptPreKey(ciphertext, address, stores)
       ELSE signalDecrypt(ciphertext, address, stores)

\* decryptMessage(ciphertext, messageType, senderName, stores): the branch
\* is chosen by the tag alone; deserializing bytes of the other format throws
decryptMessage(ciphertext, messageType, senderName, stores) ==
    LET address == ProtocolAddress(senderName, DeviceId)
    IN IF messageType = "PreKey"
       THEN IF ciphertext.type # "PreKey" THEN Throws(stores)
            ELSE signalDecryptPreKey(ciphertext, address, stores)
       ELSE IF ciphertext.type # "Whisper" THEN Throws(stores)
            ELSE signalDecrypt(ciphertext, address, stores)

\* ------------------------------------------------------------ persistence
\* serializeIdentityBundle(bundle)
serializeIdentityBundle(bundle) ==
    [ registrationId |-> bundle.registrationId,
      identityKeyPair |-> [ privateKey |-> ToBase64(bundle.identityKeyPair.privateKey),
                            publicKey |-> ToBase64(bundle.identityKeyPair.publicKey) ],
      signedPreKey |-> [ id |-> bundle.signedPreKey.id,
                         timestamp |-> bundle.signedPreKey.timestamp,
                         publicKey |-> ToBase64(bundle.signedPreKey.publicKey),
                         privateKey |-> ToBase64(bundle.signedPreKey.privateKey),
                         signature |-> ToBase64(bundle.signedPreKey.signature) ],
      preKeys |-> [ i \in DOMAIN bundle.preKeys |->
                      [ id |-> bundle.preKeys[i].id,
                        publicKey |-> ToBase64(bundle.preKeys[i].publicKey),
                        privateKey |-> ToBase64(bundle.preKeys[i].privateKey) ] ],
      kyberPreKey |-> [ id |-> bundle.kyberPreKey.id,
                        timestamp |-> bundle.kyberPreKey.timestamp,
                        publicKey |-> ToBase64(bundle.kyberPreKey.publicKey),
                        secretKey |-> ToBase64(bundle.kyberPreKey.secretKey),
                        signature |-> ToBase64(bundle.kyberPreKey.signature) ] ]

\* deserializeIdentityBundle(data); the Kyber public and secret key come
\* from two further KEMKeyPair.generate() calls, named by `nonce`
deserializeIdentityBundle(data, nonce) ==
    LET owner == FromBase64(data.identityKeyPair.privateKey).priv.owner
        sid == FromBase64(data.identityKeyPair.privateKey).priv.sid
    IN [ registrationId |-> data.registrationId,
         identityKeyPair |-> [ privateKey |-> FromBase64(data.identityKeyPair.privateKey),
                               publicKey |-> FromBase64(data.identityKeyPair.publicKey) ],
         signedPreKey |-> [ id |-> data.signedPreKey.id,
                            timestamp |-> data.signedPreKey.timestamp,
                            publicKey |-> FromBase64(data.signedPreKey.publicKey),
                            privateKey |-> FromBase64(data.signedPreKey.privateKey),
                            signature |-> FromBase64(data.signedPreKey.signature) ],
         preKeys |-> [ i \in DOMAIN data.preKeys |->
                         [ id |-> data.preKeys[i].id,
                           publicKey |-> FromBase64(data.preKeys[i].publicKey),
                           privateKey |-> FromBase64(data.preKeys[i].privateKey) ] ],
         kyberPreKey |-> [ id |-> data.kyberPreKey.id,
                           timestamp |-> data.kyberPreKey.timestamp,
                           publicKey |-> Public(GenerateKey(sid, owner,
                                                "kyberRestoredPublic", nonce)),
                           secretKey |-> Private(GenerateKey(sid, owner,
                                                 "kyberRestoredSecret", nonce)),
                           signature |-> FromBase64(data.kyberPreKey.signature) ] ]

\* the serialize() of the Session store and of the three pre-key stores
SerializeByName(state) == [ k \in DOMAIN state |-> ToBase64(state[k]) ]

SerializeById(state) ==
    [ k \in {KeyString(i) : i \in DOMAIN state} |-> ToBase64(state[Number(k)]) ]

\* InMemoryIdentityKeyStore.serialize()
SerializeIdentityStore(identity) ==
    [ identityKey |-> ToBase64(identity.identityKey),
      registrationId |-> identity.localRegistrationId,
      identityKeys |-> [ k \in DOMAIN identity.idKeys |->
                           ToBase64(identity.idKeys[k]) ] ]

\* serializeStores(stores)
serializeStores(stores) ==
    [ session |-> SerializeByName(stores.session),
      identity |-> SerializeIdentityStore(stores.identity),
      preKey |-> SerializeById(stores.preKey),
      signedPreKey |-> SerializeById(stores.signedPreKey),
      kyberPreKey |-> SerializeById(stores.kyberPreKey) ]

\* the deserialize(data) of the Session store and of the pre-key stores:
\* this.state.clear(), then one set per entry
DeserializeByName(data) == [ k \in DOMAIN data |-> FromBase64(data[k]) ]

DeserializeById(data) ==
    [ i \in {Number(k) : k \in DOMAIN data} |-> FromBase64(data[KeyString(i)]) ]

\* variant of DeserializeIdentityStore: the remote identity keys of the
\* data are not set
DeserializeIdentityStore_noKeys(identity, data) ==
    [ identity EXCEPT !.idKeys = EmptyMap ]

\* InMemoryIdentityKeyStore.deserialize(data), the instance method: only
\* the map of remote identity keys is replaced
DeserializeIdentityStore(identity, data) ==
    [ identity EXCEPT
        !.idKeys = [ k \in DOMAIN data.identityKeys |->
                       FromBase64(data.identityKeys[k]) ] ]

\* variant of deserializeStores: the stores are not cleared before the
\* entries of data are set
Merged(state, restored) ==
    [ k \in DOMAIN state \cup DOMAIN restored |->
        IF k \in DOMAIN restored THEN restored[k] ELSE state[k] ]

deserializeStores_merge(data, stores) ==
    [ session |-> Merged(stores.session, DeserializeByName(data.session)),
      identity |-> [ stores.identity EXCEPT
                       !.idKeys = Merged(@, DeserializeByName(data.identity.identityKeys)) ],
      preKey |-> Merged(stores.preKey, DeserializeById(data.preKey)),
      signedPreKey |-> Merged(stores.signedPreKey, DeserializeById(data.signedPreKey)),
      kyberPreKey |-> Merged(stores.kyberPreKey, DeserializeById(data.kyberPreKey)) ]

\* deserializeStores(data, stores)
deserializeStores(data, stores) ==
    [ session |-> DeserializeByName(data.session),
      identity |-> DeserializeIdentityStore(stores.identity, data.identity),
      preKey |-> DeserializeById(data.preKey),
      signedPreKey |-> DeserializeById(data.signedPreKey),
      kyberPreKey |-> DeserializeById(data.kyberPreKey) ]

\* JSON.stringify(data, null, 2) and JSON.parse(text)
JsonStringify(data) == [json |-> data]
JsonParse(text) == text.json

\* JSON.parse(text) returns: the text is JSON (a file cut short is not)
Parses(text) == "json" \in DOMAIN text
Truncated == [truncated |-> TRUE]

\* an async function settles: it throws, or it returns a value
Rejected == [ok |-> FALSE]
Resolved(value) == [ok |-> TRUE, value |-> value]

\* loadSession(dataDir): null without a file; readFileSync and JSON.parse
\* throw to the caller
loadSession(f, readOk) ==
    IF f = None THEN Resolved(None)
    ELSE IF ~readOk \/ ~Parses(f) THEN Rejected
    ELSE Resolved(JsonParse(f))

\* deserializeIdentityBundle(data) returns: data is an object with the
\* fields it reads (data.identityKeyPair.privateKey, ... of null throw)
IdentityDeserializes(data) == data # None

\* deserializeStores(data, stores) returns: data is an object with the five
\* maps (data.session of null, Object.entries(undefined) throw)
StoresDeserialize(data) == data # None

\* createNewSession(dataDir, model) up to the write of the file
createNewSession(sid, model, ru, ra, now) ==
    LET userIdentity == createIdentityBundle(sid, "user", ru, now)
        assistantIdentity == createIdentityBundle(sid, "assistant", ra, now)
        userStores == populateStores(userIdentity,
                          NewStores(userIdentity.identityKeyPair.privateKey,
                                    userIdentity.registrationId))
        assistantStores == populateStores(assistantIdentity,
                               NewStores(assistantIdentity.identityKeyPair.privateKey,
                                         assistantIdentity.registrationId))
        e == establishSession(userIdentity, assistantIdentity,
                              userStores, assistantStores)
    IN [ ok |-> e.ok,
         sessionData |-> [ version |-> 1,
                           created |-> now,
                           model |-> model,
                           userIdentity |-> serializeIdentityBundle(userIdentity),
                           assistantIdentity |-> serializeIdentityBundle(assistantIdentity),
                           userStores |-> serializeStores(e.userStores),
                           assistantStores |-> serializeStores(e.assistantStores),
                           messages |-> <<>> ],
         userStores |-> e.userStores,
         assistantStores |-> e.assistantStores ]

\* restoreSession(dataDir) once the file is loaded and both identity
\* bundles are deserialized: the try/catch around deserializeStores
RestoreStores(sessionData, nonce) ==
    LET userIdentity == deserializeIdentityBundle(sessionData.userIdentity, nonce)
        assistantIdentity == deserializeIdentityBundle(sessionData.assistantIdentity,
                                                       nonce)
    IN IF \/ ~StoresDeserialize(sessionData.userStores)
          \/ ~StoresDeserialize(sessionData.assistantStores)
       THEN None
       ELSE [ sessionData |-> sessionData,
              userStores |-> deserializeStores(sessionData.userStores,
                                 NewStores(userIdentity.identityKeyPair.privateKey,
                                           userIdentity.registrationId)),
              assistantStores |-> deserializeStores(sessionData.assistantStores,
                                      NewStores(assistantIdentity.identityKeyPair.privateKey,
                                                assistantIdentity.registrationId)) ]

\* restoreSession(dataDir): what loadSession and deserializeIdentityBundle
\* throw leaves the function; a failure of deserializeStores makes it
\* return null
restoreSession(f, readOk, nonce) ==
    LET loaded == loadSession(f, readOk)
    IN IF ~loaded.ok THEN Rejected
       ELSE IF loaded.value = None THEN Resolved(None)
       ELSE IF \/ ~IdentityDeserializes(loaded.value.userIdentity)
               \/ ~IdentityDeserializes(loaded.value.assistantIdentity)
            THEN Rejected
       ELSE Resolved(RestoreStores(loaded.value, nonce))

\* updateSessionMessages(dataDir, sessionData, stores): the object it is
\* given, as it is handed to saveSession
updateSessionMessages(sessionData, stores) ==
    [ sessionData EXCEPT !.userStores = serializeStores(stores) ]

\* ------------------------------------------------------------------- state
VARIABLES
    file,             \* session.json: None when absent, else its text
    running,          \* whether the process runs
    config,           \* AppConfig of this run: model, reset, listModels
    status,           \* App state.status
    appPc,            \* "off", "init" (init() pending), "reset" (handleReset
                      \* awaiting resetSession), "idle"
    ep,               \* number of the mounted ChatView / SessionContext
    stores,           \* per context number: the two live store collections
    sessionData,      \* ChatView state sessionData
    messages,         \* ChatView state messages (decrypted ChatMessage list)
    isLoading,        \* ChatView state isLoading
    error,            \* ChatView state error (None for null)
    showResetConfirm, \* ChatView state showResetConfirm
    send,             \* per context number: the handleSubmit call in flight
    load,             \* per context number: the loadMessages call
    nextSid,          \* names the next createNewSession (fresh key material)
    clock,            \* Date.now(): names message ids and timestamps
    starts, submits, resets,   \* events so far, for the bounds
    sent,             \* history: per party, the sending chain and the
                      \* position on it of its last encrypt
    reused,           \* history: some encrypt used a position of its chain
                      \* that an earlier encrypt had reached already
    keys,             \* history: the last two of the keys Ctrl+R and Escape
                      \* that the mounted ChatView handled
    input,            \* ChatView state input: the text, a sequence of characters
    cursorPos,        \* ChatView state cursorPos
    rendered,         \* input, cursorPos and isLoading as the last render saw
                      \* them: what the subscribed key handler and the
                      \* handleSubmit it calls read from their closure
    unrendered,       \* key events handled since that render
    apiStores,        \* library harness: the session context under test
    apiOps,           \* library harness: encrypt and decrypt calls so far
    apiWire,          \* library harness: ciphertexts produced, per sender
    apiOut,           \* library harness: the last decrypt call and its result
    storeOut          \* library harness: the last call of a store or of
                      \* (de)serialization and its result

vars == << file, running, config, status, appPc, ep, stores, sessionData,
           messages, isLoading, error, showResetConfirm, keys, send, load,
           nextSid, clock, starts, submits, resets, sent, reused,
           input, cursorPos, rendered, unrendered,
           apiStores, apiOps, apiWire, apiOut, storeOut >>

appVars == << file, running, config, status, appPc, ep, stores, sessionData,
              messages, isLoading, error, showResetConfirm, keys, send, load,
              nextSid, clock, starts, submits, resets, sent, reused,
              input, cursorPos, rendered, unrendered >>

inputVars == << input, cursorPos, rendered, unrendered >>

apiVars == << apiStores, apiOps, apiWire, apiOut, storeOut >>

Contexts == 0..MaxResets

Idle == [pc |-> "idle"]

NoConfig == [model |-> "m1", reset |-> FALSE, listModels |-> FALSE]

\* the value of the error state: the message shown in the banner
ErrorMessage(text) == [message |-> text]

CorruptedBanner ==
    ErrorMessage("Session corrupted. Message history cleared. Starting fresh.")

\* useState('') and useState(0) of a ChatView that mounts, and what its
\* first render hands to the handlers; also the values while none is mounted
InputCleared ==
    /\ input' = << >>
    /\ cursorPos' = 0
    /\ rendered' = [ input |-> << >>, cursorPos |-> 0, isLoading |-> FALSE ]
    /\ unrendered' = 0

\* nothing of the process is in memory
MemoryCleared ==
    /\ running' = FALSE
    /\ config' = NoConfig
    /\ status' = "loading"
    /\ appPc' = "off"
    /\ ep' = 0
    /\ stores' = [e \in Contexts |-> None]
    /\ sessionData' = None
    /\ messages' = <<>>
    /\ isLoading' = FALSE
    /\ error' = None
    /\ showResetConfirm' = FALSE
    /\ keys' = <<>>
    /\ InputCleared
    /\ send' = [e \in Contexts |-> Idle]
    /\ load' = [e \in Contexts |-> Idle]

AppInit ==
    /\ file = None
    /\ running = FALSE
    /\ config = NoConfig
    /\ status = "loading"
    /\ appPc = "off"
    /\ ep = 0
    /\ stores = [e \in Contexts |-> None]
    /\ sessionData = None
    /\ messages = <<>>
    /\ isLoading = FALSE
    /\ error = None
    /\ showResetConfirm = FALSE
    /\ send = [e \in Contexts |-> Idle]
    /\ load = [e \in Contexts |-> Idle]
    /\ nextSid = 0
    /\ clock = 0
    /\ starts = 0
    /\ submits = 0
    /\ resets = 0
    /\ sent = [p \in Parties |-> [chain |-> None, pos |-> 0]]
    /\ reused = FALSE
    /\ keys = <<>>
    /\ input = << >>
    /\ cursorPos = 0
    /\ rendered = [ input |-> << >>, cursorPos |-> 0, isLoading |-> FALSE ]
    /\ unrendered = 0

ApiIdle ==
    /\ apiStores = None
    /\ apiOps = 0
    /\ apiWire = [p \in Parties |-> <<>>]
    /\ apiOut = None
    /\ storeOut = None

Init == AppInit /\ ApiIdle

\* the ChatView instance of context e is the mounted one
Mounted(e) == running /\ status = "ready" /\ ep = e

\* the session creation a store collection belongs to
SidOf(st) == st.identity.identityKey.priv.sid

\* the sending counter of a party's current session state with its peer
SendCounter(st, peerName) ==
    st.session[idx(ProtocolAddress(peerName, DeviceId))].cur.send

\* the sending chain of a party: the root secret and role of its current
\* session state with its peer
SendChain(st, peerName) ==
    LET cur == st.session[idx(ProtocolAddress(peerName, DeviceId))].cur
    IN [secret |-> cur.secret, role |-> cur.role]

\* history kept when party p, holding stores st, encrypts a message
NoteEncrypt(p, st) ==
    LET chain == SendChain(st, Peer(p))
        pos == SendCounter(st, Peer(p)) + 1
    IN /\ sent' = [ sent EXCEPT ![p] = [ chain |-> chain, pos |-> pos ] ]
       /\ reused' = (reused \/ (sent[p].chain = chain /\ pos <= sent[p].pos))

\* ------------------------------------------------------------ App (app.tsx)
\* state becomes ready and ChatView mounts as context e: its useState
\* initial values, and loadMessages up to its first await
EnterReady(ctx, e) ==
    /\ status' = "ready"
    /\ appPc' = "idle"
    /\ ep' = e
    /\ stores' = [ stores EXCEPT ![e] = [ user |-> ctx.userStores,
                                           assistant |-> ctx.assistantStores ] ]
    /\ sessionData' = ctx.sessionData
    /\ messages' = <<>>
    /\ isLoading' = FALSE
    /\ error' = None
    /\ showResetConfirm' = FALSE
    /\ keys' = <<>>
    /\ InputCleared
    /\ load' = [ load EXCEPT ![e] =
                   IF ctx.sessionData.messages = <<>>
                   THEN [ pc |-> "done", outcome |-> "clean", failedCount |-> 0 ]
                   ELSE [ pc |-> "dec", i |-> 1, decrypted |-> <<>>,
                          failedCount |-> 0, sessionData |-> ctx.sessionData ] ]

\* variant of EnterTerminal: the failure is dropped and the state is ready
EnterTerminal_ready(s) ==
    /\ status' = "ready"
    /\ appPc' = "idle"
    /\ UNCHANGED << ep, stores, sessionData, messages, isLoading, error,
                    showResetConfirm, keys, load >>
    /\ UNCHANGED inputVars

\* state becomes error (or listing-models): nothing is mounted
EnterTerminal(s) ==
    /\ status' = s
    /\ appPc' = "idle"
    /\ UNCHANGED << ep, stores, sessionData, messages, isLoading, error,
                    showResetConfirm, keys, load >>
    /\ UNCHANGED inputVars

\* variant of CreateAndEnter: the records of the file are carried over
CreateAndEnter_keepHistory(e) ==
    \E rs \in SamplePairs, writeOk \in BOOLEAN :
        LET created == createNewSession(nextSid, config.model, rs[1], rs[2], clock)
            ctx == [ created EXCEPT !.sessionData.messages =
                       IF file # None /\ Parses(file)
                       THEN JsonParse(file).messages ELSE <<>> ]
        IN /\ nextSid' = nextSid + 1
           /\ IF ctx.ok /\ writeOk
              THEN /\ file' = JsonStringify(ctx.sessionData)
                   /\ EnterReady(ctx, e)
                   /\ sent' = [p \in Parties |-> [chain |-> None, pos |-> 0]]
              ELSE /\ EnterTerminal("error")
                   /\ UNCHANGED << file, sent >>

\* variant of CreateAndEnter: the state becomes ready although the write of
\* the file failed
CreateAndEnter_unwritten(e) ==
    \E rs \in SamplePairs, writeOk \in BOOLEAN :
        LET ctx == createNewSession(nextSid, config.model, rs[1], rs[2], clock)
        IN /\ nextSid' = nextSid + 1
           /\ IF ctx.ok
              THEN /\ file' = IF writeOk THEN JsonStringify(ctx.sessionData) ELSE file
                   /\ EnterReady(ctx, e)
                   /\ sent' = [p \in Parties |-> [chain |-> None, pos |-> 0]]
              ELSE /\ EnterTerminal("error")
                   /\ UNCHANGED << file, sent >>

\* createNewSession as App calls it: fresh identities, the file written
CreateAndEnter(e) ==
    \E rs \in SamplePairs, writeOk \in BOOLEAN :
        LET ctx == createNewSession(nextSid, config.model, rs[1], rs[2], clock)
        IN /\ nextSid' = nextSid + 1
           /\ IF ctx.ok /\ writeOk
              THEN /\ file' = JsonStringify(ctx.sessionData)
                   /\ EnterReady(ctx, e)
                   /\ sent' = [p \in Parties |-> [chain |-> None, pos |-> 0]]
              ELSE /\ EnterTerminal("error")
                   /\ UNCHANGED << file, sent >>

\* the process starts: parseArgs, render(<App config={config} />)
Start ==
    /\ ~running
    /\ starts < MaxStarts
    /\ \E m \in Models, r \in BOOLEAN, l \in BOOLEAN :
           config' = [model |-> m, reset |-> r, listModels |-> l]
    /\ running' = TRUE
    /\ status' = "loading"
    /\ appPc' = "init"
    /\ starts' = starts + 1
    /\ UNCHANGED << file, ep, stores, sessionData, messages, isLoading, error,
                    showResetConfirm, keys, send, load, nextSid, clock, submits,
                    resets, sent, reused >>
    /\ UNCHANGED inputVars
    /\ UNCHANGED apiVars

\* init(): config.listModels
InitListModels ==
    /\ running /\ appPc = "init" /\ config.listModels
    /\ \E ok \in BOOLEAN :
           EnterTerminal(IF ok THEN "listing-models" ELSE "error")
    /\ UNCHANGED << file, running, config, send, nextSid, clock, starts,
                    submits, resets, sent, reused >>
    /\ UNCHANGED apiVars

\* init(): config.reset
InitReset ==
    /\ running /\ appPc = "init" /\ ~config.listModels /\ config.reset
    /\ CreateAndEnter(0)
    /\ UNCHANGED << running, config, send, clock, starts, submits, resets, reused >>
    /\ UNCHANGED apiVars

\* variant of Usable: any restored session is taken, whatever its model
Usable_anyModel(existing, model) ==
    existing # None

\* init(): existing && existing.sessionData.model === config.model
Usable(existing, model) ==
    existing # None /\ existing.sessionData.model = model

\* init(): restoreSession, then ready with it or createNewSession
InitRestore ==
    /\ running /\ appPc = "init" /\ ~config.listModels /\ ~config.reset
    /\ \E readOk \in BOOLEAN :
         LET existing == restoreSession(file, readOk, starts)
         IN IF ~existing.ok
            THEN /\ EnterTerminal("error")
                 /\ UNCHANGED << file, nextSid, sent >>
            ELSE IF Usable(existing.value, config.model)
                 THEN /\ EnterReady(existing.value, 0)
                      /\ UNCHANGED << file, nextSid, sent >>
                 ELSE CreateAndEnter(0)
    /\ UNCHANGED << running, config, send, clock, starts, submits, resets, reused >>
    /\ UNCHANGED apiVars

\* handleReset after resetSession settled
ResetDone ==
    /\ running /\ appPc = "reset"
    /\ CreateAndEnter(ep + 1)
    /\ UNCHANGED << running, config, send, clock, starts, submits, resets, reused >>
    /\ UNCHANGED apiVars

\* the file as restoreSession expects it: JSON with both identity bundles
\* and both store collections
Intact(f) ==
    /\ Parses(f)
    /\ IdentityDeserializes(JsonParse(f).userIdentity)
    /\ IdentityDeserializes(JsonParse(f).assistantIdentity)
    /\ StoresDeserialize(JsonParse(f).userStores)
    /\ StoresDeserialize(JsonParse(f).assistantStores)

\* session.json is damaged between two runs: cut short, or still JSON
\* with an identity bundle or a store collection that is null
DamageKinds == {"truncated", "identity", "stores"}
Damaged(f, kind) ==
    CASE kind = "truncated" -> Truncated
      [] kind = "identity" ->
           JsonStringify([JsonParse(f) EXCEPT !.assistantIdentity = None])
      [] kind = "stores" ->
           JsonStringify([JsonParse(f) EXCEPT !.userStores = None])

Damage ==
    /\ ~running
    /\ starts < MaxStarts
    /\ file # None /\ Intact(file)
    /\ \E kind \in DamageKinds : file' = Damaged(file, kind)
    /\ UNCHANGED << running, config, status, appPc, ep, stores, sessionData,
                    messages, isLoading, error, showResetConfirm, keys, send, load,
                    nextSid, clock, starts, submits, resets, sent, reused >>
    /\ UNCHANGED inputVars
    /\ UNCHANGED apiVars

\* the process ends (Ctrl+C, kill): whatever is in flight is lost
Exit ==
    /\ running
    /\ MemoryCleared
    /\ UNCHANGED << file, nextSid, clock, starts, submits, resets, sent, reused >>
    /\ UNCHANGED apiVars

\* ------------------------------------------------- ChatView (chat-view.tsx)
\* a setState of the ChatView of context e: lost once it is unmounted
SetMessages(e, value) == messages' = IF Mounted(e) THEN value ELSE messages
SetSessionData(e, value) == sessionData' = IF Mounted(e) THEN value ELSE sessionData
SetError(e, value) == error' = IF Mounted(e) THEN value ELSE error
SetIsLoading(e, value) == isLoading' = IF Mounted(e) THEN value ELSE isLoading

\* fs.writeFileSync(sessionPath, JSON.stringify(data, null, 2)), or its failure
WriteFile(ok, data) == file' = IF ok THEN JsonStringify(data) ELSE file

\* the cases of one loadMessages iteration: the record it decrypts, the
\* stores it uses, the result
LoadRecord(e) == load[e].sessionData.messages[load[e].i]
LoadParty(e) == IF LoadRecord(e).sender = "user" THEN "assistant" ELSE "user"
LoadSenderName(e) == IF LoadRecord(e).sender = "user" THEN "user" ELSE "assistant"
LoadResult(e) ==
    decryptMessage(FromBase64(LoadRecord(e).ciphertext), LoadRecord(e).messageType,
                   LoadSenderName(e), stores[e][LoadParty(e)])

\* variant of AfterFailure: the first failure ends the loop
AfterFailure_abort(task) ==
    [ pc |-> "done", outcome |-> "aborted", failedCount |-> task.failedCount + 1 ]

\* what the catch of an iteration does with the loop
AfterFailure(task) == [ task EXCEPT !.failedCount = @ + 1, !.i = @ + 1 ]

\* variant of ClearedSession: the corruption branch starts a new session
ClearedSession_recreate(data, model, userStores) ==
    createNewSession(MaxStarts + MaxResets + 1, model, 0, 999, data.created).sessionData

\* the corruption branch: the session data it keeps and persists
ClearedSession(data, model, userStores) ==
    updateSessionMessages([ data EXCEPT !.model = model, !.messages = <<>> ],
                          userStores)

\* loadMessages: one iteration of the for loop, and after the last record
\* the corruption check, the clearing and setMessages
LoadStep(e) ==
    /\ running /\ load[e].pc = "dec"
    /\ LET r == LoadResult(e)
           record == LoadRecord(e)
           decrypted == IF r.ok
                        THEN Append(load[e].decrypted,
                                    [ id |-> record.id, role |-> record.sender,
                                      content |-> r.plaintext,
                                      timestamp |-> record.timestamp ])
                        ELSE load[e].decrypted
           task == IF r.ok
                   THEN [ load[e] EXCEPT !.decrypted = decrypted, !.i = @ + 1 ]
                   ELSE AfterFailure(load[e])
           last == load[e].i >= Len(load[e].sessionData.messages)
           corrupted == /\ task.failedCount > 0
                        /\ Len(decrypted) = 0
                        /\ Len(load[e].sessionData.messages) > 0
           userStores == IF LoadParty(e) = "user" THEN r.stores ELSE stores[e].user
           updatedSessionData ==
               ClearedSession(load[e].sessionData, config.model, userStores)
       IN /\ stores' = [ stores EXCEPT ![e][LoadParty(e)] = r.stores ]
          /\ IF ~last
             THEN /\ load' = [ load EXCEPT ![e] = task ]
                  /\ UNCHANGED << file, sessionData, messages, error >>
             ELSE IF corrupted
             THEN \E writeOk \in BOOLEAN :
                    /\ SetSessionData(e, updatedSessionData)
                    /\ WriteFile(writeOk, updatedSessionData)
                    /\ IF writeOk
                       THEN /\ SetError(e, CorruptedBanner)
                            /\ SetMessages(e, decrypted)
                            /\ load' = [ load EXCEPT ![e] =
                                           [ pc |-> "done", outcome |-> "corrupted",
                                             failedCount |-> task.failedCount ] ]
                       ELSE /\ UNCHANGED << error, messages >>
                            /\ load' = [ load EXCEPT ![e] =
                                           [ pc |-> "done", outcome |-> "rejected",
                                             failedCount |-> task.failedCount ] ]
             ELSE /\ SetMessages(e, decrypted)
                  /\ load' = [ load EXCEPT ![e] =
                                 [ pc |-> "done", outcome |-> "clean",
                                   failedCount |-> task.failedCount ] ]
                  /\ UNCHANGED << file, sessionData, error >>
    /\ UNCHANGED << running, config, status, appPc, ep, isLoading,
                    showResetConfirm, keys, send, nextSid, clock, starts, submits,
                    resets, sent, reused >>
    /\ UNCHANGED inputVars
    /\ UNCHANGED apiVars

\* handleSubmit up to its first await: a non-empty trimmed input is taken
Submit ==
    /\ Mounted(ep)
    /\ ~isLoading
    /\ submits < MaxSubmits
    /\ \E userInput \in Texts :
           send' = [ send EXCEPT ![ep] =
                       [ pc |-> "encUser", userInput |-> userInput,
                         userMessageId |-> clock, userTimestamp |-> clock,
                         sessionData |-> sessionData ] ]
    /\ isLoading' = TRUE
    /\ error' = None
    /\ clock' = clock + 1
    /\ submits' = submits + 1
    /\ UNCHANGED << file, running, config, status, appPc, ep, stores, sessionData,
                    messages, showResetConfirm, keys, load, nextSid, starts, resets,
                    sent, reused >>
    /\ UNCHANGED inputVars
    /\ UNCHANGED apiVars

\* handleSubmit after encryptMessage(userInput, 'assistant', userStores)
EncryptUserDone(e) ==
    /\ running /\ send[e].pc = "encUser"
    /\ LET encrypted == encryptMessage(send[e].userInput, "assistant", stores[e].user)
           userRecord == [ id |-> send[e].userMessageId,
                           sender |-> "user",
                           ciphertext |-> ToBase64(encrypted.ciphertext),
                           messageType |-> encrypted.messageType,
                           timestamp |-> send[e].userTimestamp ]
           userMessage == [ id |-> send[e].userMessageId,
                            role |-> "user",
                            content |-> send[e].userInput,
                            timestamp |-> send[e].userTimestamp ]
       IN /\ stores' = [ stores EXCEPT ![e].user = encrypted.stores ]
          /\ NoteEncrypt("user", stores[e].user)
          /\ SetMessages(e, Append(messages, userMessage))
          /\ send' = [ send EXCEPT ![e] =
                         [ pc |-> "infer", userRecord |-> userRecord,
                           sessionData |-> send[e].sessionData ] ]
    /\ UNCHANGED << file, running, config, status, appPc, ep, sessionData,
                    isLoading, error, showResetConfirm, keys, load, nextSid, clock,
                    starts, submits, resets >>
    /\ UNCHANGED inputVars
    /\ UNCHANGED apiVars

\* streamChat yields the complete response and encryptMessage is called
InferDone(e) ==
    /\ running /\ send[e].pc = "infer"
    /\ \E assistantContent \in Replies :
           send' = [ send EXCEPT ![e] =
                       [ pc |-> "encAssistant", userRecord |-> send[e].userRecord,
                         sessionData |-> send[e].sessionData,
                         assistantContent |-> assistantContent ] ]
    /\ UNCHANGED << file, running, config, status, appPc, ep, stores, sessionData,
                    messages, isLoading, error, showResetConfirm, keys, load, nextSid,
                    clock, starts, submits, resets, sent, reused >>
    /\ UNCHANGED inputVars
    /\ UNCHANGED apiVars

\* streamChat throws: catch sets the error, finally clears isLoading
InferFails(e) ==
    /\ running /\ send[e].pc = "infer"
    /\ SetError(e, ErrorMessage("inference failed"))
    /\ SetIsLoading(e, FALSE)
    /\ send' = [ send EXCEPT ![e] = Idle ]
    /\ UNCHANGED << file, running, config, status, appPc, ep, stores, sessionData,
                    messages, showResetConfirm, keys, load, nextSid, clock, starts,
                    submits, resets, sent, reused >>
    /\ UNCHANGED inputVars
    /\ UNCHANGED apiVars

\* variant of PersistSend: the record of the reply is stored with the
\* user as its sender
PersistSend_userSender(e) ==
    /\ running /\ send[e].pc = "encAssistant"
    /\ LET assistantEncrypted == encryptMessage(send[e].assistantContent, "user",
                                                stores[e].assistant)
           assistantRecord == [ id |-> clock,
                                sender |-> "user",
                                ciphertext |-> ToBase64(assistantEncrypted.ciphertext),
                                messageType |-> assistantEncrypted.messageType,
                                timestamp |-> clock ]
           assistantMessage == [ id |-> clock,
                                 role |-> "assistant",
                                 content |-> send[e].assistantContent,
                                 timestamp |-> clock ]
           updatedSessionData ==
               updateSessionMessages(
                   [ send[e].sessionData EXCEPT
                       !.messages = @ \o << send[e].userRecord, assistantRecord >> ],
                   stores[e].user)
       IN /\ stores' = [ stores EXCEPT ![e].assistant = assistantEncrypted.stores ]
          /\ NoteEncrypt("assistant", stores[e].assistant)
          /\ SetMessages(e, Append(messages, assistantMessage))
          /\ SetSessionData(e, updatedSessionData)
          /\ \E writeOk \in BOOLEAN :
                 /\ WriteFile(writeOk, updatedSessionData)
                 /\ IF writeOk THEN UNCHANGED error
                    ELSE SetError(e, ErrorMessage("write failed"))
          /\ SetIsLoading(e, FALSE)
          /\ clock' = clock + 1
          /\ send' = [ send EXCEPT ![e] = Idle ]
    /\ UNCHANGED << running, config, status, appPc, ep, showResetConfirm, keys, load,
                    nextSid, starts, submits, resets >>
    /\ UNCHANGED inputVars
    /\ UNCHANGED apiVars

\* handleSubmit after encryptMessage(assistantContent, 'user', assistantStores):
\* the records are appended, updateSessionMessages serializes userStores
\* and writes the file, finally clears isLoading
PersistSend(e) ==
    /\ running /\ send[e].pc = "encAssistant"
    /\ LET assistantEncrypted == encryptMessage(send[e].assistantContent, "user",
                                                stores[e].assistant)
           assistantRecord == [ id |-> clock,
                                sender |-> "assistant",
                                ciphertext |-> ToBase64(assistantEncrypted.ciphertext),
                                messageType |-> assistantEncrypted.messageType,
                                timestamp |-> clock ]
           assistantMessage == [ id |-> clock,
                                 role |-> "assistant",
                                 content |-> send[e].assistantContent,
                                 timestamp |-> clock ]
           updatedSessionData ==
               updateSessionMessages(
                   [ send[e].sessionData EXCEPT
                       !.messages = @ \o << send[e].userRecord, assistantRecord >> ],
                   stores[e].user)
       IN /\ stores' = [ stores EXCEPT ![e].assistant = assistantEncrypted.stores ]
          /\ NoteEncrypt("assistant", stores[e].assistant)
          /\ SetMessages(e, Append(messages, assistantMessage))
          /\ SetSessionData(e, updatedSessionData)
          /\ \E writeOk \in BOOLEAN :
                 /\ WriteFile(writeOk, updatedSessionData)
                 /\ IF writeOk THEN UNCHANGED error
                    ELSE SetError(e, ErrorMessage("write failed"))
          /\ SetIsLoading(e, FALSE)
          /\ clock' = clock + 1
          /\ send' = [ send EXCEPT ![e] = Idle ]
    /\ UNCHANGED << running, config, status, appPc, ep, showResetConfirm, keys, load,
                    nextSid, starts, submits, resets >>
    /\ UNCHANGED inputVars
    /\ UNCHANGED apiVars

\* the last two keys of a sequence of key presses
LastTwo(pressed) ==
    IF Len(pressed) <= 2 THEN pressed ELSE SubSeq(pressed, Len(pressed) - 1, Len(pressed))

\* variant of CtrlR: the first Ctrl+R calls onReset without a confirmation
CtrlR_immediate ==
    /\ Mounted(ep)
    /\ ~showResetConfirm
    /\ resets < MaxResets
    /\ status' = "loading"
    /\ appPc' = "reset"
    /\ resets' = resets + 1
    /\ sessionData' = None
    /\ messages' = <<>>
    /\ isLoading' = FALSE
    /\ error' = None
    /\ showResetConfirm' = FALSE
    /\ keys' = <<>>
    /\ InputCleared
    /\ UNCHANGED << file, running, config, ep, stores, send, load, nextSid, clock,
                    starts, submits, sent, reused >>
    /\ UNCHANGED apiVars

\* Ctrl+R while no confirmation is shown
CtrlR ==
    /\ Mounted(ep)
    /\ ~showResetConfirm
    /\ showResetConfirm' = TRUE
    /\ keys' = LastTwo(Append(keys, "ctrl+r"))
    /\ UNCHANGED << file, running, config, status, appPc, ep, stores, sessionData,
                    messages, isLoading, error, send, load, nextSid, clock,
                    starts, submits, resets, sent, reused >>
    /\ UNCHANGED inputVars
    /\ UNCHANGED apiVars

\* Escape while the confirmation is shown
Escape ==
    /\ Mounted(ep)
    /\ showResetConfirm
    /\ showResetConfirm' = FALSE
    /\ keys' = LastTwo(Append(keys, "escape"))
    /\ UNCHANGED << file, running, config, status, appPc, ep, stores, sessionData,
                    messages, isLoading, error, send, load, nextSid, clock,
                    starts, submits, resets, sent, reused >>
    /\ UNCHANGED inputVars
    /\ UNCHANGED apiVars

\* Ctrl+R while the confirmation is shown: onReset() runs handleReset up
\* to its await; state loading unmounts ChatView
CtrlRConfirm ==
    /\ Mounted(ep)
    /\ showResetConfirm
    /\ resets < MaxResets
    /\ status' = "loading"
    /\ appPc' = "reset"
    /\ resets' = resets + 1
    /\ sessionData' = None
    /\ messages' = <<>>
    /\ isLoading' = FALSE
    /\ error' = None
    /\ showResetConfirm' = FALSE
    /\ keys' = <<>>
    /\ InputCleared
    /\ UNCHANGED << file, running, config, ep, stores, send, load, nextSid, clock,
                    starts, submits, sent, reused >>
    /\ UNCHANGED apiVars

Next ==
    \/ Start
    \/ InitListModels
    \/ InitReset
    \/ InitRestore
    \/ ResetDone
    \/ Exit
    \/ Damage
    \/ Submit
    \/ \E e \in Contexts : EncryptUserDone(e)
    \/ \E e \in Contexts : InferDone(e)
    \/ \E e \in Contexts : InferFails(e)
    \/ \E e \in Contexts : PersistSend(e)
    \/ \E e \in Contexts : LoadStep(e)
    \/ CtrlR
    \/ Escape
    \/ CtrlRConfirm

Spec == Init /\ [][Next]_vars

\* --------------------------------------- ChatView: the text input handler
\* characters a key event can carry
Chars == {"a", " "}

Min(a, b) == IF a < b THEN a ELSE b
Max(a, b) == IF a > b THEN a ELSE b

\* an index of String.prototype.slice: negative counts from the end, and
\* the result is clamped to 0..length
SliceIndex(i, length) == IF i < 0 THEN Max(length + i, 0) ELSE Min(i, length)

\* text.slice(start, end) and text.slice(start)
Slice(text, start, end) ==
    LET from == SliceIndex(start, Len(text))
        to == SliceIndex(end, Len(text))
    IN IF from >= to THEN << >> ELSE SubSeq(text, from + 1, to)

SliceFrom(text, start) == Slice(text, start, Len(text))

\* text.trim()
Trim(text) ==
    LET kept == { i \in 1..Len(text) : text[i] # " " }
    IN IF kept = {} THEN << >>
       ELSE SubSeq(text, CHOOSE i \in kept : \A j \in kept : i <= j,
                         CHOOSE i \in kept : \A j \in kept : i >= j)

\* a key event reaches the text handler that is subscribed: the one of the
\* last render, with that render's isLoading, input and cursorPos
KeyHandled ==
    /\ Mounted(ep)
    /\ unrendered < MaxUnrendered
    /\ ~rendered.isLoading
    /\ unrendered' = unrendered + 1
    /\ UNCHANGED rendered

\* a regular character: inserted at the cursor position of the closure
KeyChar(inputChar) ==
    /\ KeyHandled
    /\ Len(input) < MaxLen
    /\ input' = Slice(input, 0, rendered.cursorPos) \o << inputChar >>
                    \o SliceFrom(input, rendered.cursorPos)
    /\ cursorPos' = cursorPos + 1
    /\ UNCHANGED << file, running, config, status, appPc, ep, stores, sessionData,
                    messages, isLoading, error, showResetConfirm, keys, send, load,
                    nextSid, clock, starts, submits, resets, sent, reused >>
    /\ UNCHANGED apiVars

\* Backspace or Delete with cursorPos > 0 in the closure
KeyBackspace ==
    /\ KeyHandled
    /\ rendered.cursorPos > 0
    /\ input' = Slice(input, 0, rendered.cursorPos - 1)
                    \o SliceFrom(input, rendered.cursorPos)
    /\ cursorPos' = cursorPos - 1
    /\ UNCHANGED << file, running, config, status, appPc, ep, stores, sessionData,
                    messages, isLoading, error, showResetConfirm, keys, send, load,
                    nextSid, clock, starts, submits, resets, sent, reused >>
    /\ UNCHANGED apiVars

\* Left arrow
KeyLeftArrow ==
    /\ KeyHandled
    /\ cursorPos' = Max(0, cursorPos - 1)
    /\ UNCHANGED << file, running, config, status, appPc, ep, stores, sessionData,
                    messages, isLoading, error, showResetConfirm, keys, send, load,
                    nextSid, clock, starts, submits, resets, sent, reused, input >>
    /\ UNCHANGED apiVars

\* Right arrow: the bound is the length of the input of the closure
KeyRightArrow ==
    /\ KeyHandled
    /\ cursorPos' = Min(Len(rendered.input), cursorPos + 1)
    /\ UNCHANGED << file, running, config, status, appPc, ep, stores, sessionData,
                    messages, isLoading, error, showResetConfirm, keys, send, load,
                    nextSid, clock, starts, submits, resets, sent, reused, input >>
    /\ UNCHANGED apiVars

\* handleSubmit: if (isLoading || !input.trim()) return, on its closure
handleSubmitAccepts(closure) == ~closure.isLoading /\ Trim(closure.input) # << >>

\* Enter: handleSubmit() up to its first await, then setCursorPos(0). A
\* call that is accepted while a call of this view is still in flight
\* takes the effects up to the await; of the two calls the steps of the
\* first are the ones followed.
KeyReturn ==
    /\ KeyHandled
    /\ submits < MaxSubmits
    /\ cursorPos' = 0
    /\ IF handleSubmitAccepts(rendered)
       THEN /\ input' = << >>
            /\ isLoading' = TRUE
            /\ error' = None
            /\ send' = IF send[ep] = Idle
                       THEN [ send EXCEPT ![ep] =
                                [ pc |-> "encUser", userInput |-> Trim(rendered.input),
                                  userMessageId |-> clock, userTimestamp |-> clock,
                                  sessionData |-> sessionData ] ]
                       ELSE send
            /\ clock' = clock + 1
            /\ submits' = submits + 1
       ELSE UNCHANGED << input, isLoading, error, send, clock, submits >>
    /\ UNCHANGED << file, running, config, status, appPc, ep, stores, sessionData,
                    messages, showResetConfirm, keys, load, nextSid, starts, resets,
                    sent, reused >>
    /\ UNCHANGED apiVars

\* the component renders and its effects run: the handlers subscribed from
\* now on read the current state
Render ==
    /\ Mounted(ep)
    /\ \/ unrendered > 0
       \/ rendered # [ input |-> input, cursorPos |-> cursorPos,
                       isLoading |-> isLoading ]
    /\ rendered' = [ input |-> input, cursorPos |-> cursorPos, isLoading |-> isLoading ]
    /\ unrendered' = 0
    /\ UNCHANGED << file, running, config, status, appPc, ep, stores, sessionData,
                    messages, isLoading, error, showResetConfirm, keys, send, load,
                    nextSid, clock, starts, submits, resets, sent, reused,
                    input, cursorPos >>
    /\ UNCHANGED apiVars

\* one run of the process with the keyboard: start, typing, sends
InputNext ==
    \/ Start
    \/ InitListModels
    \/ InitReset
    \/ InitRestore
    \/ \E inputChar \in Chars : KeyChar(inputChar)
    \/ KeyBackspace
    \/ KeyLeftArrow
    \/ KeyRightArrow
    \/ KeyReturn
    \/ Render
    \/ \E e \in Contexts : EncryptUserDone(e)
    \/ \E e \in Contexts : InferDone(e)
    \/ \E e \in Contexts : InferFails(e)
    \/ \E e \in Contexts : PersistSend(e)

SpecInput == Init /\ [][InputNext]_vars

\* every awaited step of a send settles
SpecInputLive ==
    /\ SpecInput
    /\ WF_vars(\E e \in Contexts : EncryptUserDone(e))
    /\ WF_vars(\E e \in Contexts : InferDone(e) \/ InferFails(e))
    /\ WF_vars(\E e \in Contexts : PersistSend(e))

\* ------------------------------------------- the library, called directly
\* createNewSession without the application around it
ApiCreate ==
    /\ apiStores = None
    /\ \E ru \in RandomSamples, ra \in RandomSamples :
         LET ctx == createNewSession(0, "m1", ru, ra, 0)
         IN /\ ctx.ok
            /\ apiStores' = [ user |-> ctx.userStores,
                              assistant |-> ctx.assistantStores ]
    /\ UNCHANGED << apiOps, apiWire, apiOut, storeOut >>
    /\ UNCHANGED appVars

\* encryptMessage(text, peer, stores of p)
ApiEncrypt(p) ==
    /\ apiStores # None
    /\ apiOps < MaxApiOps
    /\ \E text \in Texts :
         LET encrypted == encryptMessage(text, Peer(p), apiStores[p])
         IN /\ apiStores' = [ apiStores EXCEPT ![p] = encrypted.stores ]
            /\ apiWire' = [ apiWire EXCEPT ![p] =
                              Append(@, [ ciphertext |-> encrypted.ciphertext,
                                          messageType |-> encrypted.messageType,
                                          text |-> text,
                                          first |-> apiOps = 0 ]) ]
    /\ apiOps' = apiOps + 1
    /\ UNCHANGED << apiOut, storeOut >>
    /\ UNCHANGED appVars

\* decryptMessage(ciphertext, messageType, p, stores of the peer of p) on
\* the i-th ciphertext p produced
ApiDecrypt(p, i) ==
    /\ apiStores # None
    /\ apiOps < MaxApiOps
    /\ i \in 1..Len(apiWire[p])
    /\ LET w == apiWire[p][i]
           r == decryptMessage(w.ciphertext, w.messageType, p, apiStores[Peer(p)])
       IN /\ apiStores' = [ apiStores EXCEPT ![Peer(p)] = r.stores ]
          /\ apiOut' = [ sender |-> p, text |-> w.text, ok |-> r.ok,
                         plaintext |-> IF r.ok THEN r.plaintext ELSE None,
                         fresh |-> w.first /\ apiOps = 1 ]
    /\ apiOps' = apiOps + 1
    /\ UNCHANGED << apiWire, storeOut >>
    /\ UNCHANGED appVars

\* the identity keys handed to saveIdentity for a name: the key of that
\* party, and its key after it generated a new identity
IdentityKeys(name) ==
    { Public(GenerateKey(sid, name, "identity", 0)) : sid \in {0, 1} }

\* identityStore.saveIdentity(address, key) on the Identity store of p
ApiSaveIdentity(p) ==
    /\ apiStores # None
    /\ apiOps < MaxApiOps
    /\ \E name \in Parties : \E key \in IdentityKeys(name) :
         LET address == ProtocolAddress(name, DeviceId)
             identityStore == apiStores[p].identity
             saved == saveIdentity(identityStore, address, key)
         IN /\ apiStores' = [ apiStores EXCEPT ![p].identity = saved ]
            /\ storeOut' = [ op |-> "saveIdentity",
                             currentKey |-> IF idx(address) \in DOMAIN identityStore.idKeys
                                            THEN identityStore.idKeys[idx(address)]
                                            ELSE None,
                             key |-> key,
                             change |-> saveIdentityResult(identityStore, address, key),
                             stored |-> saved.idKeys[idx(address)] ]
    /\ apiOps' = apiOps + 1
    /\ UNCHANGED << apiWire, apiOut >>
    /\ UNCHANGED appVars

\* preKeyStore.removePreKey(id) on the PreKey store of p
ApiRemovePreKey(p) ==
    /\ apiStores # None
    /\ apiOps < MaxApiOps
    /\ \E id \in {1, NumPreKeys} :
         apiStores' = [ apiStores EXCEPT ![p].preKey = removePreKey(@, id) ]
    /\ apiOps' = apiOps + 1
    /\ UNCHANGED << apiWire, apiOut, storeOut >>
    /\ UNCHANGED appVars

\* deserializeStores(data, target) where data is what serializeStores gave
\* for the collection of q and target is a collection that holds what the
\* collection of p holds
ApiDeserialize(p, q) ==
    /\ apiStores # None
    /\ apiOps < MaxApiOps
    /\ LET data == serializeStores(apiStores[q])
       IN storeOut' = [ op |-> "deserialize",
                        data |-> data,
                        before |-> apiStores[p],
                        after |-> deserializeStores(data, apiStores[p]) ]
    /\ apiOps' = apiOps + 1
    /\ UNCHANGED << apiStores, apiWire, apiOut >>
    /\ UNCHANGED appVars

\* serializeStores of the collection of p, then deserializeStores into a
\* collection newly constructed for p as restoreSession constructs it
ApiRoundTrip(p) ==
    /\ apiStores # None
    /\ apiOps < MaxApiOps
    /\ LET original == apiStores[p]
           fresh == NewStores(original.identity.identityKey,
                              original.identity.localRegistrationId)
       IN storeOut' = [ op |-> "roundTrip",
                        original |-> original,
                        copy |-> deserializeStores(serializeStores(original), fresh) ]
    /\ apiOps' = apiOps + 1
    /\ UNCHANGED << apiStores, apiWire, apiOut >>
    /\ UNCHANGED appVars

\* variant of getPreKey: an absent id gives undefined instead of an error
getPreKey_undefined(preKeyStore, id) ==
    Resolved(IF id \in DOMAIN preKeyStore THEN preKeyStore[id] ELSE None)

\* InMemoryPreKeyStore.getPreKey, InMemorySignedPreKeyStore.getSignedPreKey,
\* InMemoryKyberPreKeyStore.getKyberPreKey: throw on an absent id
getPreKey(preKeyStore, id) ==
    IF id \in DOMAIN preKeyStore THEN Resolved(preKeyStore[id]) ELSE Rejected

getSignedPreKey(signedPreKeyStore, id) ==
    IF id \in DOMAIN signedPreKeyStore THEN Resolved(signedPreKeyStore[id])
    ELSE Rejected

getKyberPreKey(kyberPreKeyStore, id) ==
    IF id \in DOMAIN kyberPreKeyStore THEN Resolved(kyberPreKeyStore[id])
    ELSE Rejected

\* a lookup in the stores of p: the store, the id or peer name looked up
LookupKinds == {"preKey", "signedPreKey", "kyberPreKey", "session"}
LookupIds(kind) ==
    IF kind = "session" THEN Parties
    ELSE IF kind = "preKey" THEN {1, NumPreKeys, NumPreKeys + 1}
    ELSE {1, 2}

Lookup(st, kind, id) ==
    CASE kind = "preKey" -> getPreKey(st.preKey, id)
      [] kind = "signedPreKey" -> getSignedPreKey(st.signedPreKey, id)
      [] kind = "kyberPreKey" -> getKyberPreKey(st.kyberPreKey, id)
      [] kind = "session" ->
           Resolved(getSession(st.session, ProtocolAddress(id, DeviceId)))

ApiLookup(p) ==
    /\ apiStores # None
    /\ apiOps < MaxApiOps
    /\ \E kind \in LookupKinds : \E id \in LookupIds(kind) :
         storeOut' = [ op |-> "lookup", party |-> p, kind |-> kind, id |-> id,
                       result |-> Lookup(apiStores[p], kind, id) ]
    /\ apiOps' = apiOps + 1
    /\ UNCHANGED << apiStores, apiWire, apiOut >>
    /\ UNCHANGED appVars

\* createIdentityBundle() called for one party
ApiCreateIdentityBundle(owner) ==
    /\ apiOps < MaxApiOps
    /\ \E r \in RandomSamples :
         storeOut' = [ op |-> "createIdentityBundle",
                       bundle |-> createIdentityBundle(0, owner, r, 0) ]
    /\ apiOps' = apiOps + 1
    /\ UNCHANGED << apiStores, apiWire, apiOut >>
    /\ UNCHANGED appVars

\* deserializeIdentityBundle(serializeIdentityBundle(bundle)) on the bundle
\* that createIdentityBundle returned last
ApiRestoreIdentityBundle ==
    /\ apiOps < MaxApiOps
    /\ storeOut # None /\ storeOut.op = "createIdentityBundle"
    /\ storeOut' = [ op |-> "deserializeIdentityBundle",
                     bundle |-> storeOut.bundle,
                     restored |-> deserializeIdentityBundle(
                                      serializeIdentityBundle(storeOut.bundle),
                                      apiOps) ]
    /\ apiOps' = apiOps + 1
    /\ UNCHANGED << apiStores, apiWire, apiOut >>
    /\ UNCHANGED appVars

\* establishSession(userIdentity, assistantIdentity, userStores,
\* assistantStores) called on the stores as they are, with the identity
\* bundles of the two parties
ApiEstablishSession ==
    /\ apiStores # None
    /\ apiOps < MaxApiOps
    /\ \E ru \in RandomSamples, ra \in RandomSamples :
         LET e == establishSession(createIdentityBundle(0, "user", ru, 0),
                                   createIdentityBundle(0, "assistant", ra, 0),
                                   apiStores.user, apiStores.assistant)
         IN /\ e.ok
            /\ apiStores' = [ user |-> e.userStores,
                              assistant |-> e.assistantStores ]
    /\ storeOut' = [ op |-> "establishSession", at |-> apiOps ]
    /\ apiOps' = apiOps + 1
    /\ UNCHANGED << apiWire, apiOut >>
    /\ UNCHANGED appVars

\* InMemoryKyberPreKeyStore.saveKyberPreKey
saveKyberPreKey(kyberStore, id, record) == MapSet(kyberStore, id, record)

\* kyberPreKeyStore.saveKyberPreKey(id, record) on the KyberPreKey store
\* of p, with a record made of the KEM key pair of the identity bundle of p
ApiSaveKyberPreKey(p) ==
    /\ apiStores # None
    /\ LET bundle == createIdentityBundle(0, p, 0, 0)
           record == [ id |-> bundle.kyberPreKey.id,
                       timestamp |-> bundle.kyberPreKey.timestamp,
                       keyPair |-> [ publicKey |-> bundle.kyberPreKey.publicKey,
                                     secretKey |-> bundle.kyberPreKey.secretKey ],
                       signature |-> bundle.kyberPreKey.signature ]
       IN /\ bundle.kyberPreKey.id \in DOMAIN apiStores[p].kyberPreKey
          /\ apiStores[p].kyberPreKey[bundle.kyberPreKey.id] # record
          /\ apiStores' = [ apiStores EXCEPT ![p].kyberPreKey =
                              saveKyberPreKey(@, bundle.kyberPreKey.id, record) ]
    /\ UNCHANGED << apiOps, apiWire, apiOut, storeOut >>
    /\ UNCHANGED appVars

\* the tags a caller can hand to decryptMessage
MessageTypes == {"PreKey", "Whisper"}

\* decryptMessage(ciphertext, messageType, p, stores of the peer of p) on
\* the i-th ciphertext p produced, with a tag the caller chooses
ApiDecryptAs(p, i, messageType) ==
    /\ apiStores # None
    /\ apiOps < MaxApiOps
    /\ i \in 1..Len(apiWire[p])
    /\ LET w == apiWire[p][i]
           r == decryptMessage(w.ciphertext, messageType, p, apiStores[Peer(p)])
       IN /\ apiStores' = [ apiStores EXCEPT ![Peer(p)] = r.stores ]
          /\ storeOut' = [ op |-> "decryptMessage", sender |-> p,
                           ciphertext |-> w.ciphertext,
                           messageType |-> messageType,
                           ok |-> r.ok, at |-> apiOps ]
    /\ apiOps' = apiOps + 1
    /\ UNCHANGED << apiWire, apiOut >>
    /\ UNCHANGED appVars

ApiNext ==
    \/ ApiCreate
    \/ \E p \in Parties : ApiEncrypt(p)
    \/ \E p \in Parties, i \in 1..MaxApiOps : ApiDecrypt(p, i)
    \/ \E p \in Parties : ApiSaveIdentity(p)
    \/ \E p \in Parties : ApiRemovePreKey(p)
    \/ \E p, q \in Parties : ApiDeserialize(p, q)
    \/ \E p \in Parties : ApiRoundTrip(p)
    \/ \E owner \in Parties : ApiCreateIdentityBundle(owner)
    \/ ApiRestoreIdentityBundle
    \/ \E p \in Parties : ApiLookup(p)
    \/ ApiEstablishSession
    \/ \E p \in Parties : ApiSaveKyberPreKey(p)
    \/ \E p \in Parties, i \in 1..MaxApiOps : \E messageType \in MessageTypes :
         ApiDecryptAs(p, i, messageType)

SpecApi == Init /\ [][ApiNext]_vars

\* ================================================================= claims

\* C1: in a session just produced by createNewSession, with no message
\* exchanged yet, a message encrypted by one party and decrypted by the
\* other with its own stores comes back as the original plaintext, in
\* either direction.
C1_FreshRoundTrip ==
    (apiOut # None /\ apiOut.fresh) =>
        (apiOut.ok /\ apiOut.plaintext = apiOut.text)

\* the send of context e ends with its records written to the file
SendPersisted(e) ==
    /\ send[e].pc = "encAssistant"
    /\ send'[e] = Idle
    /\ running'
    /\ file' # file

\* C3: after every successful persistence at the end of a send, the
\* session file holds for both parties the serialized form of that
\* party's current in-memory stores.
C3_DurableStoresCurrent ==
    [][ \A e \in Contexts :
          SendPersisted(e) =>
              /\ JsonParse(file').userStores = serializeStores(stores'[e].user)
              /\ JsonParse(file').assistantStores =
                     serializeStores(stores'[e].assistant) ]_vars

\* C4: ratchet state only moves forward over the life of a session: the
\* stores a restart installs are never behind the position the party last
\* encrypted at, and no sending-chain position is used for two messages.
C4_RatchetOnlyForward ==
    /\ ~reused
    /\ \A p \in Parties :
         (/\ running /\ status = "ready"
          /\ SendChain(stores[ep][p], Peer(p)) = sent[p].chain)
         => SendCounter(stores[ep][p], Peer(p)) >= sent[p].pos

\* the plaintext a record was encrypted from, and the display list that
\* shows every record of a list in order
PlaintextOf(record) == FromBase64(record.ciphertext).message.text
Displayed(records) ==
    [ i \in 1..Len(records) |->
        [ id |-> records[i].id, role |-> records[i].sender,
          content |-> PlaintextOf(records[i]),
          timestamp |-> records[i].timestamp ] ]

\* loadMessages of context e ends with this step
LoadEnds(e) ==
    /\ load[e].pc = "dec"
    /\ running'
    /\ load'[e].pc = "done"

\* C5: after a restart, decrypting the persisted record list in list order
\* displays exactly one message per record, with the original plaintexts
\* in the original order.
C5_HistoryRestoredInOrder ==
    [][ \A e \in Contexts :
          (LoadEnds(e) /\ Mounted(e)) =>
              messages' = Displayed(load[e].sessionData.messages) ]_vars

\* C6: over any number of restarts on the same session file, every
\* restore decrypts every persisted record: no decrypt of the history
\* loop fails.
C6_EveryRestoreDecryptsAll ==
    \A e \in Contexts :
        load[e].pc \in {"dec", "done"} => load[e].failedCount = 0

\* loadMessages of context e ends with every record having failed
AllFailed(e) ==
    /\ LoadEnds(e)
    /\ load'[e].failedCount = Len(load[e].sessionData.messages)

\* the identity bundles of a session
Identities(data) == << data.userIdentity, data.assistantIdentity >>

\* C7: when on restore every record of a non-empty persisted list fails to
\* decrypt, the corruption banner is set, the in-memory and persisted
\* message lists are empty, and the identity bundles and key stores of
\* both parties, in memory and in the file, are what they were before the
\* restore attempt. Stated for the mounted view whose write of the file
\* succeeds.
C7_CorruptionLeavesKeysUntouched ==
    [][ \A e \in Contexts :
          (AllFailed(e) /\ Mounted(e) /\ load'[e].outcome = "corrupted") =>
              /\ error' = CorruptedBanner
              /\ messages' = <<>>
              /\ sessionData'.messages = <<>>
              /\ JsonParse(file').messages = <<>>
              /\ stores'[e] = stores[e]
              /\ Identities(JsonParse(file')) = Identities(load[e].sessionData)
              /\ JsonParse(file').userStores = load[e].sessionData.userStores
              /\ JsonParse(file').assistantStores =
                     load[e].sessionData.assistantStores ]_vars

\* a decrypt of the history loop of context e fails in this step
DecryptFails(e) ==
    /\ load[e].pc = "dec"
    /\ running'
    /\ load'[e].failedCount > load[e].failedCount

C9_CorruptionNeverCreates ==
    [][ /\ \A e \in Contexts :
             (LoadEnds(e) /\ load'[e].outcome # "clean") =>
                 /\ nextSid' = nextSid
                 /\ status' = status /\ ep' = ep /\ appPc' = appPc
                 /\ Mounted(e) => /\ status' = "ready"
                                  /\ Identities(sessionData') = Identities(sessionData)
        /\ (nextSid' # nextSid) => appPc \in {"init", "reset"}
        /\ (running' /\ status = "ready" /\ status' = "ready")
             => Identities(sessionData') = Identities(sessionData)
        /\ (running' /\ status = "ready" /\ status' # "ready")
             => (showResetConfirm /\ appPc' = "reset")
        /\ (running' /\ appPc = "init" /\ appPc' # "init"
              /\ ~config.listModels /\ file = None)
             => nextSid' = nextSid + 1 ]_vars

C9_CorruptedAndStillReady ==
    /\ Mounted(ep)
    /\ load[ep].pc = "done" /\ load[ep].outcome = "corrupted"
    /\ error = CorruptedBanner
    /\ Identities(sessionData) = Identities(JsonParse(file))
    /\ resets = 0

C11_StatusTransitions ==
    [][ running' =>
          /\ (status' # status) =>
                 << status, status' >> \in
                     { << "loading", "ready" >>, << "loading", "error" >>,
                       << "ready", "loading" >>,
                       << "loading", "listing-models" >> }
          /\ (running /\ status = "error") => status' = "error"
          /\ (status' = "ready" /\ status # "ready") =>
                 /\ appPc \in {"init", "reset"}
                 /\ file' # None
                 /\ stores'[ep'] # None
                 /\ \/ /\ nextSid' = nextSid + 1
                       /\ file' = JsonStringify(sessionData')
                       /\ SidOf(stores'[ep'].user) = nextSid
                    \/ /\ nextSid' = nextSid
                       /\ file' = file
                       /\ sessionData' = JsonParse(file) ]_vars

\* C11 happens: ready was left by a reset and entered again
C11_ReadyAgainAfterReset ==
    /\ Mounted(1)
    /\ resets = 1

\* C12: a failure at startup ends in the error state.  When the session
\* file exists but cannot be restored (cut short, an identity bundle or a
\* store collection that does not deserialize) a start without the reset
\* flag for the model it records ends in error and leaves the file as it
\* is; ready is reached only
\* with the session that is in the file; and createNewSession runs at most
\* once per start.
C12_StartupFailureEndsInError ==
    [][ (/\ running /\ appPc = "init" /\ running' /\ appPc' # "init"
         /\ ~config.listModels) =>
            /\ (/\ ~config.reset /\ file # None /\ ~Intact(file)
                /\ Parses(file) => JsonParse(file).model = config.model) =>
                   /\ status' = "error"
                   /\ file' = file
            /\ (status' = "ready") =>
                   /\ file' # None
                   /\ Intact(file')
                   /\ JsonParse(file') = sessionData'
            /\ (status' # "ready") => status' = "error"
            /\ nextSid' <= nextSid + 1 ]_vars

\* what the context handed to ChatView holds when it is rebuilt from file f
RebuiltFrom(f, nonce) ==
    [ user |-> deserializeStores(JsonParse(f).userStores,
                   NewStores(deserializeIdentityBundle(JsonParse(f).userIdentity,
                                 nonce).identityKeyPair.privateKey,
                             JsonParse(f).userIdentity.registrationId)),
      assistant |-> deserializeStores(JsonParse(f).assistantStores,
                        NewStores(deserializeIdentityBundle(JsonParse(f).assistantIdentity,
                                      nonce).identityKeyPair.privateKey,
                                  JsonParse(f).assistantIdentity.registrationId)) ]

\* C13: restoreSession never throws: a start without the reset flag never
\* ends in error before createNewSession was called; without a file and
\* with a damaged file restoreSession returned null, so createNewSession
\* is called; and a context that is used has its stores rebuilt from the
\* file.
C13_RestoreNeverThrows ==
    [][ (/\ running /\ appPc = "init" /\ running' /\ appPc' # "init"
         /\ ~config.listModels /\ ~config.reset) =>
            /\ ~(status' = "error" /\ nextSid' = nextSid)
            /\ (file = None \/ ~Intact(file)) => nextSid' = nextSid + 1
            /\ (status' = "ready" /\ nextSid' = nextSid) =>
                   /\ file # None /\ Intact(file)
                   /\ stores'[ep'] = RebuiltFrom(file, starts) ]_vars

\* the session creations that the keys of a store collection, and of a
\* serialized identity bundle, come from
StoreSids(st) ==
    {st.identity.identityKey.priv.sid}
      \cup UNION { {st.preKey[i].publicKey.pub.sid, st.preKey[i].privateKey.priv.sid} :
                     i \in DOMAIN st.preKey }
      \cup UNION { {st.signedPreKey[i].publicKey.pub.sid,
                    st.signedPreKey[i].privateKey.priv.sid} :
                     i \in DOMAIN st.signedPreKey }
      \cup UNION { {st.kyberPreKey[i].keyPair.publicKey.pub.sid,
                    st.kyberPreKey[i].keyPair.secretKey.priv.sid} :
                     i \in DOMAIN st.kyberPreKey }

BundleSids(data) ==
    { FromBase64(data.identityKeyPair.privateKey).priv.sid,
      FromBase64(data.identityKeyPair.publicKey).pub.sid,
      FromBase64(data.signedPreKey.privateKey).priv.sid,
      FromBase64(data.signedPreKey.publicKey).pub.sid,
      FromBase64(data.kyberPreKey.publicKey).pub.sid,
      FromBase64(data.kyberPreKey.secretKey).priv.sid }
      \cup UNION { {FromBase64(data.preKeys[i].publicKey).pub.sid,
                    FromBase64(data.preKeys[i].privateKey).priv.sid} :
                     i \in DOMAIN data.preKeys }

\* a reset completes: handleReset, or init with the reset flag, enters ready
ResetCompletes ==
    /\ running /\ running' /\ status' = "ready"
    /\ \/ appPc = "reset"
       \/ appPc = "init" /\ config.reset

\* C14: when a reset completes, the identity bundles and the store
\* collections of both parties hold only keys generated by this creation,
\* none of which is in the previous file or in the stores of an earlier
\* view; the message list is empty in memory and in the file; and the file
\* is the serialized new session and nothing else.
C14_ResetIsCreate ==
    [][ ResetCompletes =>
          LET new == stores'[ep']
          IN /\ StoreSids(new.user) = {nextSid}
             /\ StoreSids(new.assistant) = {nextSid}
             /\ BundleSids(sessionData'.userIdentity) = {nextSid}
             /\ BundleSids(sessionData'.assistantIdentity) = {nextSid}
             /\ (file # None /\ Intact(file)) =>
                    nextSid \notin BundleSids(JsonParse(file).userIdentity)
                                     \cup BundleSids(JsonParse(file).assistantIdentity)
             /\ \A e \in Contexts :
                    (e # ep' /\ stores[e] # None) =>
                        nextSid \notin StoreSids(stores[e].user)
                                         \cup StoreSids(stores[e].assistant)
             /\ sessionData'.messages = <<>>
             /\ messages' = <<>>
             /\ file' = JsonStringify(sessionData')
             /\ sessionData'.userStores = serializeStores(new.user)
             /\ sessionData'.assistantStores = serializeStores(new.assistant)
             /\ sessionData'.model = config.model ]_vars

\* C14 happens: a reset completed in a view in which a message had been
\* submitted, and the new view is mounted on the empty new session
C14_ResetOverHistory ==
    /\ Mounted(1)
    /\ resets = 1
    /\ submits >= 1
    /\ sessionData.messages = <<>>
    /\ file = JsonStringify(sessionData)
    /\ load[0].pc = "done"

\* a record list made of (user, assistant) pairs, and the ids in it
CompletePairs(list) ==
    /\ Len(list) % 2 = 0
    /\ \A k \in 1..Len(list) :
           list[k].sender = IF k % 2 = 1 THEN "user" ELSE "assistant"

RecordIds(list) == { list[k].id : k \in 1..Len(list) }

\* the send of view e ends without its write of the file having happened
SendFails(e) ==
    /\ running'
    /\ send[e].pc \in {"infer", "encAssistant"}
    /\ send'[e] = Idle
    /\ file' = file

\* C15: the record list, in memory and in the file, is always made of
\* complete (user, assistant) pairs, and when a send fails (inference,
\* encryption of the reply, or the write of the file) neither list holds
\* the user record of that exchange.
C15_SendIsOneUnit ==
    [][ /\ (sessionData' # None) => CompletePairs(sessionData'.messages)
        /\ (file' # None /\ Parses(file')) =>
               CompletePairs(JsonParse(file').messages)
        /\ \A e \in Contexts :
               SendFails(e) =>
                   /\ (sessionData' # None) =>
                          send[e].userRecord.id \notin RecordIds(sessionData'.messages)
                   /\ (file' # None /\ Parses(file')) =>
                          send[e].userRecord.id
                              \notin RecordIds(JsonParse(file').messages) ]_vars

\* list a is an initial part of list b
IsPrefix(a, b) ==
    /\ Len(a) <= Len(b)
    /\ \A k \in 1..Len(a) : a[k] = b[k]

\* the records of a list stand in the order in which they were generated
InGenerationOrder(list) ==
    \A j, k \in 1..Len(list) : (j < k) => list[j].id < list[k].id

\* a step that is allowed to empty the list: a session is created, or
\* loadMessages takes its corruption branch
ClearStep ==
    \/ nextSid' # nextSid
    \/ \E e \in Contexts :
           /\ load[e].pc = "dec"
           /\ load'[e].pc = "done"
           /\ load'[e].outcome \in {"corrupted", "rejected"}

\* C16: the record list is append-only and in generation order: except at
\* a reset and at a corruption clear, every record of the list in memory
\* and of the list in the file keeps its index and fields from one step to
\* the next, and records appear in the order of their generation.
C16_RecordsAppendOnly ==
    [][ /\ (/\ running /\ running' /\ ep' = ep /\ ~ClearStep
            /\ sessionData # None /\ sessionData' # None) =>
               IsPrefix(sessionData.messages, sessionData'.messages)
        /\ (/\ running /\ ~ClearStep
            /\ file # None /\ Parses(file) /\ Parses(file')) =>
               IsPrefix(JsonParse(file).messages, JsonParse(file').messages)
        /\ (sessionData' # None) => InGenerationOrder(sessionData'.messages)
        /\ (file' # None /\ Parses(file')) =>
               InGenerationOrder(JsonParse(file').messages) ]_vars

\* the party whose store collection an operation of view e in flight uses:
\* the encryptMessage of a send, the decryptMessage of loadMessages
SendInFlightOn(e) ==
    IF send[e].pc = "encUser" THEN {"user"}
    ELSE IF send[e].pc = "encAssistant" THEN {"assistant"}
    ELSE {}

LoadInFlightOn(e) ==
    IF load[e].pc = "dec" THEN {LoadParty(e)} ELSE {}

\* C17: no two operations are in flight against the same store collection:
\* a send starts its encryptMessage only when loadMessages of its view has
\* ended and no other send of the view is in flight, and at no time do a
\* send and loadMessages work on the stores of the same party.
C17_OneOperationPerStores ==
    [][ \A e \in Contexts :
          /\ (running' /\ send'[e].pc = "encUser" /\ send[e] # send'[e]) =>
                 /\ send[e] = Idle
                 /\ load[e].pc # "dec"
          /\ (running' /\ stores'[e] # None) =>
                 (SendInFlightOn(e) \cap LoadInFlightOn(e))' = {} ]_vars

\* C18: saveIdentity reports a replacement exactly when a different key was
\* stored for the address before, reports new-or-unchanged when no key was
\* stored or the same key, and the key stored afterwards is the given key.
C18_SaveIdentityClassifies ==
    (storeOut # None /\ storeOut.op = "saveIdentity") =>
        /\ (storeOut.change = "ReplacedExisting") <=>
               (storeOut.currentKey # None /\ storeOut.currentKey # storeOut.key)
        /\ storeOut.change \in {"ReplacedExisting", "NewOrUnchanged"}
        /\ storeOut.stored = storeOut.key

\* the last call of the harness was a deserializeStores
Deserialized == storeOut # None /\ storeOut.op = "deserialize"

\* a map of a store holds exactly the entries of its serialized form
HoldsByName(state, data) ==
    /\ DOMAIN state = DOMAIN data
    /\ \A k \in DOMAIN data : ToBase64(state[k]) = data[k]

HoldsById(state, data) ==
    /\ DOMAIN state = { Number(k) : k \in DOMAIN data }
    /\ \A k \in DOMAIN data : ToBase64(state[Number(k)]) = data[k]

\* C19 as stated: after deserialize(d) every store, the Identity store
\* with its own identity key and registration id included, is in the state
\* that d describes, whatever it held before.
C19_DeserializeReplacesAll ==
    Deserialized =>
        /\ HoldsByName(storeOut.after.session, storeOut.data.session)
        /\ HoldsById(storeOut.after.preKey, storeOut.data.preKey)
        /\ HoldsById(storeOut.after.signedPreKey, storeOut.data.signedPreKey)
        /\ HoldsById(storeOut.after.kyberPreKey, storeOut.data.kyberPreKey)
        /\ HoldsByName(storeOut.after.identity.idKeys,
                       storeOut.data.identity.identityKeys)
        /\ ToBase64(storeOut.after.identity.identityKey) =
               storeOut.data.identity.identityKey
        /\ storeOut.after.identity.localRegistrationId =
               storeOut.data.identity.registrationId

\* C19 amended: after deserialize(d) the Session store, the three pre-key
\* stores and the map of remote identity keys of the Identity store hold
\* exactly the entries of d, whatever they held before; the own identity
\* key and the registration id of the Identity store stay those it was
\* constructed with.
C19_DeserializeReplacesMaps ==
    Deserialized =>
        /\ HoldsByName(storeOut.after.session, storeOut.data.session)
        /\ HoldsById(storeOut.after.preKey, storeOut.data.preKey)
        /\ HoldsById(storeOut.after.signedPreKey, storeOut.data.signedPreKey)
        /\ HoldsById(storeOut.after.kyberPreKey, storeOut.data.kyberPreKey)
        /\ HoldsByName(storeOut.after.identity.idKeys,
                       storeOut.data.identity.identityKeys)
        /\ storeOut.after.identity.identityKey =
               storeOut.before.identity.identityKey
        /\ storeOut.after.identity.localRegistrationId =
               storeOut.before.identity.localRegistrationId

\* C19 happens: the target held a session, a one-time pre-key and an own
\* identity key that the data does not have
C19_DeserializedOverOtherContents ==
    /\ Deserialized
    /\ DOMAIN storeOut.before.session \ DOMAIN storeOut.data.session # {}
    /\ \E id \in DOMAIN storeOut.before.preKey :
           KeyString(id) \notin DOMAIN storeOut.data.preKey
    /\ ToBase64(storeOut.before.identity.identityKey) #
           storeOut.data.identity.identityKey

\* the last call of the harness was a round trip through the durable form
RoundTripped == storeOut # None /\ storeOut.op = "roundTrip"

BundleRestored == storeOut # None /\ storeOut.op = "deserializeIdentityBundle"

\* C21: deserializeIdentityBundle(serializeIdentityBundle(b)) has the
\* registration id, the identity key pair, the signed pre-key, the one-time
\* pre-keys and the Kyber pre-key (public and secret key) of b.
C21_BundleRoundTrip ==
    BundleRestored =>
        /\ storeOut.restored.registrationId = storeOut.bundle.registrationId
        /\ storeOut.restored.identityKeyPair = storeOut.bundle.identityKeyPair
        /\ storeOut.restored.signedPreKey = storeOut.bundle.signedPreKey
        /\ storeOut.restored.preKeys = storeOut.bundle.preKeys
        /\ storeOut.restored.kyberPreKey.publicKey = storeOut.bundle.kyberPreKey.publicKey
        /\ storeOut.restored.kyberPreKey.secretKey = storeOut.bundle.kyberPreKey.secretKey
        /\ storeOut.restored.kyberPreKey = storeOut.bundle.kyberPreKey

\* the last call of the harness was createIdentityBundle
BundleCreated == storeOut # None /\ storeOut.op = "createIdentityBundle"

\* C23: a bundle returned by createIdentityBundle has a registration id in
\* 1..16380, exactly ten one-time pre-keys with the ids 1..10 in order, one
\* signed pre-key and one Kyber pre-key, and the signatures of these two
\* verify under the bundle's identity key over the public key they carry.
C23_BundleShape ==
    BundleCreated =>
        LET b == storeOut.bundle
        IN /\ b.registrationId \in 1..MaxRegistrationId
           /\ DOMAIN b.preKeys = 1..10
           /\ \A i \in DOMAIN b.preKeys : b.preKeys[i].id = i
           /\ \A i, j \in DOMAIN b.preKeys :
                  (i # j) => /\ b.preKeys[i].id # b.preKeys[j].id
                             /\ b.preKeys[i].publicKey # b.preKeys[j].publicKey
           /\ \A i \in DOMAIN b.preKeys :
                  b.preKeys[i].privateKey.priv = b.preKeys[i].publicKey.pub
           /\ b.identityKeyPair.privateKey.priv = b.identityKeyPair.publicKey.pub
           /\ b.signedPreKey.privateKey.priv = b.signedPreKey.publicKey.pub
           /\ b.kyberPreKey.secretKey.priv = b.kyberPreKey.publicKey.pub
           /\ VerifySignature(b.identityKeyPair.publicKey, b.signedPreKey.publicKey,
                              b.signedPreKey.signature)
           /\ VerifySignature(b.identityKeyPair.publicKey, b.kyberPreKey.publicKey,
                              b.kyberPreKey.signature)

\* C23 happens: a bundle was created with the smallest random draw
C23_BundleWithSmallestDraw ==
    /\ BundleCreated
    /\ storeOut.bundle.registrationId = 1

\* the step is a lookup in the stores of a party
LookedUp == storeOut' # storeOut /\ storeOut'.op = "lookup"

\* the key under which a store of party p holds what is looked up
LookupKey(kind, id) ==
    IF kind = "session" THEN idx(ProtocolAddress(id, DeviceId)) ELSE id

\* C22: getPreKey, getSignedPreKey and getKyberPreKey of an absent id fail
\* with an error, getSession of an address without a session returns null
\* without an error, a lookup of what is present returns the record the
\* store holds for it, and no lookup changes a store.
C22_Lookups ==
    [][ LookedUp =>
          LET out == storeOut'
              store == apiStores[out.party][out.kind]
              key == LookupKey(out.kind, out.id)
          IN /\ apiStores' = apiStores
             /\ (key \in DOMAIN store) =>
                    (out.result.ok /\ out.result.value = store[key])
             /\ (key \notin DOMAIN store /\ out.kind # "session") =>
                    ~out.result.ok
             /\ (key \notin DOMAIN store /\ out.kind = "session") =>
                    (out.result.ok /\ out.result.value = None) ]_vars

\* C22 happens: a one-time pre-key that had been removed was looked up
C22_AbsentPreKeyLookedUp ==
    /\ storeOut # None /\ storeOut.op = "lookup"
    /\ storeOut.kind = "preKey" /\ storeOut.id = 1
    /\ 1 \notin DOMAIN apiStores[storeOut.party].preKey
    /\ ~storeOut.result.ok

\* the key handled last by the mounted view
LastKey(pressed) == IF pressed = <<>> THEN None ELSE [key |-> pressed[Len(pressed)]]

SessionEstablished ==
    \/ apiStores = None /\ apiStores' # None
    \/ storeOut' # storeOut /\ storeOut'.op = "establishSession"

\* the stores of party p that establishSession was given in this step
StoresBeforeEstablish(p) ==
    IF apiStores = None
    THEN LET identity == createIdentityBundle(0, p, 0, 0)
         IN populateStores(identity,
                           NewStores(identity.identityKeyPair.privateKey,
                                     apiStores'[p].identity.localRegistrationId))
    ELSE apiStores[p]

\* C25: after establishSession each party's session store holds a session
\* under the address of the other party (name of the other party, device
\* 1), the only one when the store held none before, and its identity
\* store holds the other party's public identity key under that address;
\* the PreKey, SignedPreKey and KyberPreKey stores of both parties are as
\* they were before the call.
C25_EstablishSessionEffect ==
    [][ SessionEstablished =>
          \A p \in Parties :
            LET before == StoresBeforeEstablish(p)
                after == apiStores'[p]
                peerAddress == ProtocolAddress(Peer(p), DeviceId)
                peerKey == createIdentityBundle(0, Peer(p), 0, 0).identityKeyPair.publicKey
            IN /\ DOMAIN after.session = DOMAIN before.session \cup {idx(peerAddress)}
               /\ (before.session = EmptyMap =>
                      Cardinality(DOMAIN after.session) = 1)
               /\ after.session[idx(peerAddress)].cur # None
               /\ after.session[idx(peerAddress)].cur.remoteIdentity = peerKey
               /\ idx(peerAddress) \in DOMAIN after.identity.idKeys
               /\ after.identity.idKeys[idx(peerAddress)] = peerKey
               /\ after.identity.identityKey = before.identity.identityKey
               /\ after.preKey = before.preKey
               /\ after.signedPreKey = before.signedPreKey
               /\ after.kyberPreKey = before.kyberPreKey ]_vars

\* C25 happens: establishSession ran on the stores createNewSession made,
\* and each party holds one session for the other
C25_SessionEstablished ==
    /\ storeOut # None /\ storeOut.op = "establishSession"
    /\ \A p \in Parties :
         DOMAIN apiStores[p].session = {idx(ProtocolAddress(Peer(p), DeviceId))}

\* C26: in the stores createNewSession returns, the Kyber pre-key record of
\* each party holds the KEM key pair of that party's identity bundle, the
\* pair whose public key the pre-key bundle publishes, so the ciphertext
\* the other party encapsulated in the handshake is one this record's
\* secret key decapsulates.
C26_KyberRecordIsBundlePair ==
    (apiStores # None /\ apiOps = 0) =>
        \A p \in Parties :
          LET bundle == createIdentityBundle(0, p, 0, 0)
              record == apiStores[p].kyberPreKey[bundle.kyberPreKey.id]
              peerSession == apiStores[Peer(p)].session[
                                 idx(ProtocolAddress(p, DeviceId))].cur
          IN /\ record.keyPair.publicKey = bundle.kyberPreKey.publicKey
             /\ record.keyPair.secretKey = bundle.kyberPreKey.secretKey
             /\ record.keyPair.publicKey = PreKeyBundle(bundle).kyberPreKeyPublic
             /\ peerSession.pending.kyberCiphertext =
                    Encapsulate(record.keyPair.publicKey)

\* a step in which party p encrypted a message
EncryptedBy(p) == Len(apiWire'[p]) = Len(apiWire[p]) + 1

\* a step in which a message of party p was handed to decryptMessage
DecryptedFrom(p) ==
    \/ apiOut' # apiOut /\ apiOut'.sender = p
    \/ storeOut' # storeOut /\ storeOut'.op = "decryptMessage" /\ storeOut'.sender = p

\* C27: encryptMessage with the stores of one party changes at most the
\* session store and the remote keys of the identity store of that party;
\* its three pre-key stores and all five stores of the other party stay as
\* they are. decryptMessage with the stores of the receiver leaves the five
\* stores of the sender as they are.
C27_OnlyTheCallersStores ==
    [][ \A p \in Parties :
          /\ EncryptedBy(p) =>
               /\ apiStores'[Peer(p)] = apiStores[Peer(p)]
               /\ apiStores'[p].preKey = apiStores[p].preKey
               /\ apiStores'[p].signedPreKey = apiStores[p].signedPreKey
               /\ apiStores'[p].kyberPreKey = apiStores[p].kyberPreKey
               /\ apiStores'[p].identity.identityKey = apiStores[p].identity.identityKey
               /\ apiStores'[p].identity.localRegistrationId =
                      apiStores[p].identity.localRegistrationId
               /\ apiStores'[p].session # apiStores[p].session
          /\ DecryptedFrom(p) => apiStores'[p] = apiStores[p] ]_vars

\* C27 happens: a party encrypted its first message and the other party
\* decrypted it, which changed the receiver's session and one-time pre-keys
C27_DecryptChangedReceiver ==
    /\ storeOut # None /\ storeOut.op = "decryptMessage" /\ storeOut.ok
    /\ apiStores[Peer(storeOut.sender)].preKey # apiStores[storeOut.sender].preKey
    /\ DOMAIN apiStores[Peer(storeOut.sender)].preKey # 1..NumPreKeys
    /\ DOMAIN apiStores[storeOut.sender].preKey = 1..NumPreKeys
    /\ apiStores[storeOut.sender].session[
           idx(ProtocolAddress(Peer(storeOut.sender), DeviceId))].cur.send > 0

\* the three pre-key stores of a store collection
PreKeyStores(st) == << st.preKey, st.signedPreKey, st.kyberPreKey >>

\* C28: decryptMessage chooses its path by the message-type tag alone. With
\* a tag other than PreKey it takes the ratchet path: the PreKey,
\* SignedPreKey and KyberPreKey stores of the receiver stay as they are,
\* also when the bytes are a handshake message, and only ratchet-format
\* bytes decrypt. Only a call with the PreKey tag changes one of the three
\* stores, and only handshake-format bytes decrypt under it.
C28_DispatchOnTag ==
    [][ (storeOut' # storeOut /\ storeOut'.op = "decryptMessage") =>
          LET out == storeOut'
              receiver == Peer(out.sender)
          IN /\ out.messageType # "PreKey" =>
                   /\ PreKeyStores(apiStores'[receiver]) =
                          PreKeyStores(apiStores[receiver])
                   /\ out.ok => out.ciphertext.type = "Whisper"
             /\ out.messageType = "PreKey" =>
                   (out.ok => out.ciphertext.type = "PreKey")
             /\ PreKeyStores(apiStores'[receiver]) # PreKeyStores(apiStores[receiver]) =>
                   out.messageType = "PreKey" /\ out.ok
             /\ ~out.ok => apiStores' = apiStores ]_vars

\* C28 happens: a handshake message that the receiver is able to decrypt
\* was handed to decryptMessage with the tag of a ratchet message
C28_HandshakeBytesUnderRatchetTag ==
    /\ storeOut # None /\ storeOut.op = "decryptMessage"
    /\ storeOut.messageType = "Whisper"
    /\ storeOut.ciphertext.type = "PreKey"
    /\ ~storeOut.ok
    /\ decryptMessage(storeOut.ciphertext, "PreKey", storeOut.sender,
                      apiStores[Peer(storeOut.sender)]).ok

\* the party whose identity key a handshake message carries
ProducedBy(ciphertext) == ciphertext.identityKey.pub.owner

\* a record holds the bytes and the tag one encrypt call of its sender gave
RecordOf(record, sender, encrypted) ==
    /\ record.sender = sender
    /\ FromBase64(record.ciphertext) = encrypted.ciphertext
    /\ record.messageType = encrypted.messageType

HandshakeDecrypted ==
    /\ storeOut' # storeOut /\ storeOut'.op = "decryptMessage"
    /\ storeOut'.messageType = "PreKey" /\ storeOut'.ok

RecordSid(record) ==
    LET ciphertext == FromBase64(record.ciphertext)
    IN IF ciphertext.type = "PreKey" THEN ciphertext.identityKey.pub.sid
       ELSE ciphertext.message.secret.aliceIdentity.sid

\* C31: while the view that a confirmed Ctrl+R mounted is shown, session.json
\* describes the session of that view: it holds the identity bundles of the
\* new session, serialized stores with keys of the new session only, and no
\* record encrypted in an earlier session.
C31_FileDescribesNewSession ==
    (Mounted(ep) /\ ep > 0) =>
        /\ file # None /\ Intact(file)
        /\ JsonParse(file).userIdentity = sessionData.userIdentity
        /\ JsonParse(file).assistantIdentity = sessionData.assistantIdentity
        /\ BundleSids(JsonParse(file).userIdentity) = {SidOf(stores[ep].user)}
        /\ \A i \in DOMAIN JsonParse(file).messages :
               RecordSid(JsonParse(file).messages[i]) = SidOf(stores[ep].user)

\* C32: when no send is in flight and the history load of the mounted view
\* has finished, every displayed message has a record with its id in the
\* record list of the session data, also after a send that failed part-way.
C32_DisplayedHaveRecords ==
    (Mounted(ep) /\ ~isLoading /\ load[ep].pc = "done") =>
        \A i \in DOMAIN messages :
            \E j \in DOMAIN sessionData.messages :
                sessionData.messages[j].id = messages[i].id

\* loadMessages of the mounted view takes its corruption branch and clears
CorruptionClear ==
    /\ load[ep].pc = "dec"
    /\ load'[ep].pc = "done"
    /\ load'[ep].outcome = "corrupted"

\* the displayed message at index k belongs to a send that appended both
\* its messages: it is a reply, or the message a reply follows
SentSuccessfully(k) ==
    \/ messages[k].role = "assistant"
    \/ k < Len(messages) /\ messages[k + 1].role = "assistant"

C36_CursorInsideInput ==
    /\ 0 <= cursorPos
    /\ cursorPos <= Len(input)

\* a step in which handleSubmit passes its guard
SubmitAccepted == submits' = submits + 1

\* C34: handleSubmit goes past its guard only when no send is in flight
\* and the trimmed input is not empty; after every accepted submit the view
\* is eventually not loading again, whether the exchange succeeds or a step
\* of it fails; and a failing send sets the error banner and leaves the
\* lifecycle state of the application as it is.
C34_SubmitGuardAndCompletion ==
    /\ [][ SubmitAccepted =>
             /\ ~isLoading
             /\ send[ep] = Idle
             /\ Trim(input) # << >> ]_vars
    /\ (isLoading ~> ~isLoading)
    /\ [][ \A e \in Contexts :
             (SendFails(e) /\ Mounted(e)) =>
                 /\ error' # None
                 /\ status' = status /\ appPc' = appPc ]_vars

\* a step in which App enters the ready state with a session that
\* createNewSession made in this step
ReadyByCreate == running' /\ status' = "ready" /\ nextSid' # nextSid

\* C35: whenever the application is in the ready state the session file
\* exists and the model of the session data in memory is the configured
\* model; and a ready state that is entered with a session made by
\* createNewSession is entered with the file already written with that
\* session's data.
C35_ReadyHasFileAndModel ==
    /\ []((running /\ status = "ready") =>
             /\ file # None
             /\ sessionData.model = config.model)
    /\ [][ ReadyByCreate => file' = JsonStringify(sessionData') ]_vars

\* the second run of the program is ready with a session that its init
\* created without --reset, no usable file being there
C35_ReadyAfterCreate ==
    /\ Mounted(ep) /\ starts = 2 /\ resets = 0 /\ ~config.reset
    /\ SidOf(stores[ep].user) = nextSid - 1
    /\ file = JsonStringify(sessionData)
    /\ sessionData.model = config.model
    /\ sessionData.messages = << >>

====
